---------------------------- MODULE Spec2Model ----------------------------
(***************************************************************************)
(* Model of the spudLink packet protocol engine of depthai_hand_tracker:   *)
(* PacketTool (framer/decoder and encoder), EthernetLink (transport with   *)
(* its receive ring buffer) and ControllerHandler (the polling tick).      *)
(***************************************************************************)
EXTENDS Integers, Sequences, FiniteSets, TLC

VARIABLES
    connected,      \* EthernetLink.connected
    receiveBuf,     \* EthernetLink.receiveBuf: the buffered bytes, oldest first
    pt,             \* PacketTool: the receive-side fields
    inBuffer,       \* PacketTool.inBuffer
    outBuffer,      \* PacketTool.outBuffer
    crashed,        \* an exception left doRunTimeTasks: the main loop has ended
    pending,        \* a connection request waits at the server socket
    sock,           \* bytes sent by the peer, not yet read from clientSocket
    peerClosed,     \* the peer has closed its end of the connection
    plan,           \* peer: the bytes it still intends to send
    planKind,       \* peer: what the current plan is
    plansLeft,      \* peer: how many plans it may still start
    epoch,          \* history: number of connections accepted so far
    ringEpoch,      \* history: for each byte of receiveBuf, the connection it came on
    pktBytes,       \* history: the bytes consumed for the packet being framed
    pktEpochs,      \* history: the connections the bytes of pktBytes came on
    lastDone,       \* history: the packet completed before the current one
    track,          \* history: progress of the current plan through the node
    obs,            \* history: what the last call of doRunTimeTasks did
    enc,            \* encoder round trip: the last build request and its result
    call            \* a single method called on its own: its inputs and what it did

vars == <<call, connected, receiveBuf, pt, inBuffer, outBuffer, crashed, pending, sock,
          peerClosed, plan, planKind, plansLeft, epoch, ringEpoch, pktBytes,
          pktEpochs, lastDone, track, obs, enc>>

-----------------------------------------------------------------------------
(* Program constants *)

IN_BUFFER_SIZE == 1024

OUT_BUFFER_SIZE == 1024

RECEIVE_BUFFER_SIZE == 50

\* the device identifiers handed to ControllerHandler by setupControllerHandler
\* (DeviceIdentifierEnum.OAKDLITE_CONTROLLER and HEAD_PI).  The enum modules are
\* not among the sources: the values here and of the packet types below are
\* distinct bytes, and nothing depends on which ones.
ThisDeviceIdentifier == 2

RemoteDeviceIdentifier == 1

\* PacketTypeEnum: the members the sources name
NO_PKT == 0

GET_DEVICE_INFO == 2

LOG_MESSAGE == 5

HAND_GESTURE_DATA == 6

PacketTypeCodes == {NO_PKT, GET_DEVICE_INFO, LOG_MESSAGE, HAND_GESTURE_DATA}

\* "Hello from Oak-D-Lite Camera 1!" as UTF-8 bytes
GreetingBytes ==
    <<72, 101, 108, 108, 111, 32, 102, 114, 111, 109, 32, 79, 97, 107, 45, 68,
      45, 76, 105, 116, 101, 32, 67, 97, 109, 101, 114, 97, 32, 49, 33>>

-----------------------------------------------------------------------------
(* Bounds of the model *)

\* how many plans (packets or noise bursts) the peer starts in one run
MaxPlans == 2

\* how many connections the node accepts in one run
MaxConnections == 2

\* the longest run of garbage bytes the peer sends
MaxGarbage == 8

\* the longest payload built in the encoder round trip
MaxPayload == 2

-----------------------------------------------------------------------------
(* Helpers *)

RECURSIVE SumSeq(_)
SumSeq(s) ==
    IF s = <<>> THEN 0 ELSE Head(s) + SumSeq(Tail(s))

(* inBuffer and outBuffer are arrays created full of zeros, with indices     *)
(* 0..SIZE.  An array is held as the sequence of its entries up to the last *)
(* non-zero one; every entry past it is the 0 it was created with.          *)

At(buf, i) ==
    IF i < Len(buf) THEN buf[i + 1] ELSE 0

\* buf without the zeros at its end
Trim(buf) ==
    IF buf = <<>> \/ buf[Len(buf)] # 0 THEN buf
    ELSE IF \A k \in 1..Len(buf) : buf[k] = 0 THEN <<>>
    ELSE SubSeq(buf, 1, CHOOSE k \in 1..Len(buf) :
                            buf[k] # 0 /\ \A j \in (k + 1)..Len(buf) : buf[j] = 0)

\* n zeros
Zeros(n) ==
    [k \in 1..n |-> 0]

\* buf[i] = v
Put(buf, i, v) ==
    IF i < Len(buf) THEN Trim([buf EXCEPT ![i + 1] = v])
    ELSE IF v = 0 THEN buf
    ELSE buf \o Zeros(i - Len(buf)) \o <<v>>

RECURSIVE SumRange(_, _, _)
\* buf[lo] + ... + buf[hi - 1], summed by halves
SumRange(buf, lo, hi) ==
    IF lo >= hi THEN 0
    ELSE IF hi = lo + 1 THEN At(buf, lo)
    ELSE SumRange(buf, lo, (lo + hi) \div 2) + SumRange(buf, (lo + hi) \div 2, hi)

RECURSIVE DropWhileNot(_, _)
DropWhileNot(s, v) ==
    IF s = <<>> \/ Head(s) = v THEN s ELSE DropWhileNot(Tail(s), v)

Drop(s, n) ==
    SubSeq(s, n + 1, Len(s))

Take(s, n) ==
    SubSeq(s, 1, n)

RECURSIVE Pow2(_)
Pow2(k) ==
    IF k = 0 THEN 1 ELSE 2 * Pow2(k - 1)

\* v with bit k flipped
FlipBit(v, k) ==
    IF (v \div Pow2(k)) % 2 = 1 THEN v - Pow2(k) ELSE v + Pow2(k)

-----------------------------------------------------------------------------
(* CircularBuffer *)

CB_available(b) ==
    Len(b)

\* mutant: a full buffer gives up its oldest byte for the new one
CB_append_Overwrites(b, v) ==
    IF Len(b) < RECEIVE_BUFFER_SIZE THEN Append(b, v) ELSE Append(Tail(b), v)

\* a buffer that grows with what is appended
CB_append_Unbounded(b, v) ==
    Append(b, v)

CB_append(b, v) ==
    IF Len(b) < RECEIVE_BUFFER_SIZE THEN Append(b, v) ELSE b

\* retrieve(): v is the next unread byte, b the buffer without it
CB_retrieve(b) ==
    [b |-> Tail(b), v |-> Head(b)]

CB_peek(b) ==
    Head(b)

CB_reset(b) ==
    <<>>

\* read(dest, offset, length): the first length bytes go to dest[offset..]
CB_read(b, dest, offset, length) ==
    Trim([k \in 1..(IF offset + length > Len(dest) THEN offset + length ELSE Len(dest)) |->
            IF k - 1 >= offset /\ k - 1 < offset + length
            THEN b[k - offset]
            ELSE At(dest, k - 1)])

-----------------------------------------------------------------------------
(* PacketTool: construction and reset *)

ResetFields(p) ==
    [p EXCEPT !.pktType = NO_PKT,
              !.headerValid = FALSE,
              !.numPktDataBytes = 0,
              !.numDataBytesPlusChecksumByte = 0,
              !.pktChecksum = 0,
              !.destDeviceIdentifierFromReceivedPkt = 0,
              !.sourceDeviceIdentifierFromReceivedPkt = 0,
              !.resyncCount = 0]

InitPacketTool ==
    [byteInSet |-> FALSE,
     pktType |-> NO_PKT,
     headerValid |-> FALSE,
     numPktDataBytes |-> 0,
     numDataBytesPlusChecksumByte |-> 0,
     pktChecksum |-> 0,
     destDeviceIdentifierFromReceivedPkt |-> 0,
     sourceDeviceIdentifierFromReceivedPkt |-> 0,
     resyncCount |-> 0]

InitInBuffer ==
    <<>>

InitOutBuffer ==
    <<>>

setStreams(p) ==
    [p EXCEPT !.byteInSet = TRUE]

-----------------------------------------------------------------------------
(* PacketTool: the framer.  Each operator returns the fields it leaves     *)
(* behind: p (the PacketTool fields), rb (the ring buffer), and raised.    *)

\* mutant: the 0xaa that ends the search is tossed as well
resync_TossesSync(p, rb) ==
    [p |-> [p EXCEPT !.resyncCount = @ + 1],
     rb |-> Drop(DropWhileNot(rb, 170), IF DropWhileNot(rb, 170) = <<>> THEN 0 ELSE 1),
     raised |-> "none"]

\* mutant: resyncCount is incremented for every byte tossed
resync_CountsBytes(p, rb) ==
    [p |-> [p EXCEPT !.resyncCount = @ + (Len(rb) - Len(DropWhileNot(rb, 170)))],
     rb |-> DropWhileNot(rb, 170),
     raised |-> "none"]

\* tosses bytes until 0xaa is at the head or the buffer is empty
resync(p, rb) ==
    [p |-> [p EXCEPT !.resyncCount = @ + 1],
     rb |-> DropWhileNot(rb, 170),
     raised |-> "none"]

\* mutant: the two length bytes taken in the wrong order
NumPktDataBytesOf_Swapped(msb, lsb) ==
    ((lsb * 256) % 65536) + (msb % 256)

\* (MSB << 8) & 0xff00 + (LSB & 0xff)
NumPktDataBytesOf(msb, lsb) ==
    ((msb * 256) % 65536) + (lsb % 256)

checkForPacketHeaderAvailable(p, rb) ==
    IF CB_available(rb) < 7
    THEN [p |-> p, rb |-> rb, raised |-> "none"]
    ELSE
        LET p0 == [p EXCEPT !.pktChecksum = 0] IN
        IF rb[1] # 170
        THEN resync(p0, Drop(rb, 1))
        ELSE IF rb[2] # 85
        THEN resync([p0 EXCEPT !.pktChecksum = 170], Drop(rb, 2))
        ELSE
            LET p4 == [p0 EXCEPT
                         !.destDeviceIdentifierFromReceivedPkt = rb[3],
                         !.sourceDeviceIdentifierFromReceivedPkt = rb[4],
                         !.pktChecksum = 170 + 85 + rb[3] + rb[4] + rb[5]]
            IN
            IF rb[5] \notin PacketTypeCodes
            THEN \* PacketTypeEnum(pktTypeInt) raises ValueError
                 [p |-> p4, rb |-> Drop(rb, 5), raised |-> "ValueError"]
            ELSE
                LET n == NumPktDataBytesOf(rb[6], rb[7]) IN
                [p |-> [p4 EXCEPT
                          !.pktType = rb[5],
                          !.pktChecksum = @ + rb[6] + rb[7],
                          !.numPktDataBytes = n,
                          !.numDataBytesPlusChecksumByte = n + 1,
                          !.headerValid = TRUE],
                 rb |-> Drop(rb, 7),
                 raised |-> "none"]

\* mutant: the checksum masked with 0x7f
ChecksumAccepts_Mask7(sum) ==
    sum % 128 = 0

\* the checksum test of checkForPacketReady
ChecksumAccepts(sum) ==
    sum % 256 = 0

\* mutant: the destination is not looked at
AddressedHere_Any(p, thisId) ==
    TRUE

\* the destination test of checkForPacketReady
AddressedHere(p, thisId) ==
    p.destDeviceIdentifierFromReceivedPkt = thisId

\* the bytes checkForPacketReady adds to pktChecksum
PayloadSum(buf, n) ==
    SumRange(buf, 0, n)

\* a retrieval that takes the newest bytes of the ring buffer, not the oldest
FinishPacket_TakesNewest(p, rb, buf, thisId) ==
    LET n == p.numDataBytesPlusChecksumByte IN
    IF CB_available(rb) < n
    THEN [p |-> p, rb |-> rb, buf |-> buf, ret |-> "false", raised |-> "none"]
    ELSE
        LET p1 == [p EXCEPT !.headerValid = FALSE]
            buf1 == CB_read(Drop(rb, CB_available(rb) - n), buf, 0, n)
            rb1 == Take(rb, CB_available(rb) - n)
        IN
        IF ~AddressedHere(p1, thisId)
        THEN [p |-> p1, rb |-> rb1, buf |-> buf1, ret |-> "false", raised |-> "none"]
        ELSE
            LET p2 == [p1 EXCEPT !.pktChecksum = @ + PayloadSum(buf1, n)] IN
            [p |-> p2, rb |-> rb1, buf |-> buf1,
             ret |-> IF ChecksumAccepts(p2.pktChecksum) THEN "true" ELSE "false",
             raised |-> "none"]

\* the second half of checkForPacketReady, entered with a valid header
FinishPacket(p, rb, buf, thisId) ==
    LET n == p.numDataBytesPlusChecksumByte IN
    IF CB_available(rb) < n
    THEN [p |-> p, rb |-> rb, buf |-> buf, ret |-> "false", raised |-> "none"]
    ELSE
        LET p1 == [p EXCEPT !.headerValid = FALSE]
            buf1 == CB_read(rb, buf, 0, n)
            rb1 == Drop(rb, n)
        IN
        IF ~AddressedHere(p1, thisId)
        THEN [p |-> p1, rb |-> rb1, buf |-> buf1, ret |-> "false", raised |-> "none"]
        ELSE
            LET p2 == [p1 EXCEPT !.pktChecksum = @ + PayloadSum(buf1, n)] IN
            [p |-> p2, rb |-> rb1, buf |-> buf1,
             ret |-> IF ChecksumAccepts(p2.pktChecksum) THEN "true" ELSE "false",
             raised |-> "none"]

\* mutant: a packet for this device that fails the checksum is followed by a
\* search for the next 0xaa
FinishPacket_ThenSearch(p, rb, buf, thisId) ==
    LET f == FinishPacket(p, rb, buf, thisId) IN
    IF f.ret = "false" /\ Len(f.rb) < Len(rb) /\ AddressedHere(f.p, thisId)
    THEN [f EXCEPT !.p = resync(f.p, f.rb).p, !.rb = resync(f.p, f.rb).rb]
    ELSE f

checkForPacketReady_SearchesAfterBadSum(p, rb, buf, thisId) ==
    IF ~p.byteInSet
    THEN [p |-> p, rb |-> rb, buf |-> buf, ret |-> "false", raised |-> "none"]
    ELSE IF ~p.headerValid
    THEN
        LET h == checkForPacketHeaderAvailable(p, rb) IN
        IF h.raised # "none"
        THEN [p |-> h.p, rb |-> h.rb, buf |-> buf, ret |-> "none", raised |-> h.raised]
        ELSE IF ~h.p.headerValid
        THEN [p |-> h.p, rb |-> h.rb, buf |-> buf, ret |-> "false", raised |-> "none"]
        ELSE FinishPacket_ThenSearch(h.p, h.rb, buf, thisId)
    ELSE FinishPacket_ThenSearch(p, rb, buf, thisId)

\* mutant: headerValid is cleared before the test for enough bytes
checkForPacketReady_ForgetsHeader(p, rb, buf, thisId) ==
    IF ~p.byteInSet
    THEN [p |-> p, rb |-> rb, buf |-> buf, ret |-> "false", raised |-> "none"]
    ELSE IF ~p.headerValid
    THEN
        LET h == checkForPacketHeaderAvailable(p, rb) IN
        IF h.raised # "none"
        THEN [p |-> h.p, rb |-> h.rb, buf |-> buf, ret |-> "none", raised |-> h.raised]
        ELSE IF ~h.p.headerValid
        THEN [p |-> h.p, rb |-> h.rb, buf |-> buf, ret |-> "false", raised |-> "none"]
        ELSE FinishPacket(h.p, h.rb, buf, thisId)
    ELSE [FinishPacket(p, rb, buf, thisId) EXCEPT !.p.headerValid = FALSE]

checkForPacketReady(p, rb, buf, thisId) ==
    IF ~p.byteInSet
    THEN [p |-> p, rb |-> rb, buf |-> buf, ret |-> "false", raised |-> "none"]
    ELSE IF ~p.headerValid
    THEN
        LET h == checkForPacketHeaderAvailable(p, rb) IN
        IF h.raised # "none"
        THEN [p |-> h.p, rb |-> h.rb, buf |-> buf, ret |-> "none", raised |-> h.raised]
        ELSE IF ~h.p.headerValid
        THEN [p |-> h.p, rb |-> h.rb, buf |-> buf, ret |-> "false", raised |-> "none"]
        ELSE FinishPacket(h.p, h.rb, buf, thisId)
    ELSE FinishPacket(p, rb, buf, thisId)

-----------------------------------------------------------------------------
(* PacketTool: the encoder.  outBuffer is an array of unsigned bytes with  *)
(* indices 0..OUT_BUFFER_SIZE: a store of a value outside 0..255 raises    *)
(* OverflowError, a store at an index past the end raises IndexError.      *)

\* one assignment outBuffer[x] = v on an encoder state [buf, x, n, raised]
Store(st, v) ==
    IF st.raised # "none" THEN st
    ELSE IF st.x > OUT_BUFFER_SIZE THEN [st EXCEPT !.raised = "IndexError"]
    ELSE IF v < 0 \/ v > 255 THEN [st EXCEPT !.raised = "OverflowError"]
    ELSE [st EXCEPT !.buf = Put(@, st.x, v), !.x = @ + 1]

\* returns the buffer; the index of the next empty spot is always 7
prepareHeader(buf, thisId, pDestAddress, pPacketType, pNumDataBytes) ==
    Trim(<<170, 85, pDestAddress, thisId, pPacketType,
           (pNumDataBytes \div 256) % 256, pNumDataBytes % 256>> \o Drop(buf, 7))

\* a checksum that is the low byte of the sum itself
ChecksumByte_LowByteOfSum(checksum) ==
    checksum % 256

\* the value calculateChecksumAndStoreInBuffer tries to store
ChecksumByte(checksum) ==
    256 - (checksum % 256)

\* returns [buf, ret, raised]; an OverflowError of the store is caught inside
calculateChecksumAndStoreInBuffer(buf, pLastIndex) ==
    IF pLastIndex > OUT_BUFFER_SIZE
    THEN [buf |-> buf, ret |-> pLastIndex + 1, raised |-> "IndexError"]
    ELSE
        LET checksum == SumRange(buf, 0, pLastIndex)
            v == ChecksumByte(checksum)
        IN
        [buf |-> IF v >= 0 /\ v <= 255 THEN Put(buf, pLastIndex, v) ELSE buf,
         ret |-> pLastIndex + 1,
         raised |-> "none"]

\* a length field left as prepareHeader wrote it
setPacketNumDataBytes_Skipped(buf, pNumDataBytes) ==
    buf

setPacketNumDataBytes(buf, pNumDataBytes) ==
    Put(Put(buf, 5, (pNumDataBytes \div 256) % 256), 6, pNumDataBytes % 256)

\* the value x returned by calculateChecksumAndStoreInBuffer is the number of
\* bytes handed to sendOutBuffer
FinishBuild(c) ==
    [buf |-> c.buf, len |-> c.ret, raised |-> c.raised]

RECURSIVE StoreAll(_, _)
\* client code storing payload bytes one after the other
StoreAll(st, bytes) ==
    IF bytes = <<>> THEN st ELSE StoreAll(Store(st, Head(bytes)), Tail(bytes))

\* outBuffer[0..n-1] as the sequence of bytes handed to the socket
OutBytes(buf, n) ==
    [i \in 1..n |-> At(buf, i - 1)]

\* the second store of one pass of the inner loop, a the state after the first
EncodeLowByte(a, anInt) ==
    IF a.raised # "none" THEN a
    ELSE IF a.x = OUT_BUFFER_SIZE - 1 THEN [a EXCEPT !.stop = TRUE]
    ELSE [Store(a, anInt % 256) EXCEPT
             !.n = @ + 1,
             !.stop = (a.x + 1 = OUT_BUFFER_SIZE - 1)]

\* one pass of the inner loop of sendSignedShortIntsFromListOfTuples; stop
\* tells that a break has ended the loop over this tuple
EncodeInt(st, anInt) ==
    IF st.stop \/ st.raised # "none" THEN st
    ELSE EncodeLowByte([Store(st, (anInt \div 256) % 256) EXCEPT !.n = @ + 1], anInt)

RECURSIVE EncodeInts(_, _)
\* the inner loop over one tuple, run by halves
EncodeInts(st, ints) ==
    IF ints = <<>> \/ st.stop \/ st.raised # "none" THEN st
    ELSE IF Len(ints) = 1 THEN EncodeInt(st, ints[1])
    ELSE EncodeInts(EncodeInts(st, Take(ints, Len(ints) \div 2)),
                    Drop(ints, Len(ints) \div 2))

\* one pass of the outer loop: a break in the inner loop ends this tuple only
EncodeTuple(st, aTuple) ==
    IF st.raised # "none" THEN st
    ELSE EncodeInts([st EXCEPT !.stop = FALSE], aTuple)

RECURSIVE EncodeTuples(_, _)
\* the outer loop over the tuples, run by halves
EncodeTuples(st, pData) ==
    IF pData = <<>> \/ st.raised # "none" THEN st
    ELSE IF Len(pData) = 1 THEN EncodeTuple(st, pData[1])
    ELSE EncodeTuples(EncodeTuples(st, Take(pData, Len(pData) \div 2)),
                      Drop(pData, Len(pData) \div 2))

\* what follows the loops: setPacketNumDataBytes, the checksum
FinishShortInts(st) ==
    IF st.raised # "none"
    THEN [buf |-> st.buf, len |-> 0, raised |-> st.raised]
    ELSE FinishBuild(calculateChecksumAndStoreInBuffer(setPacketNumDataBytes(st.buf, st.n),
                                                       st.x))

\* sendSignedShortIntsFromListOfTuples up to the call of sendOutBuffer:
\* [buf, len, raised], len the number of bytes handed to sendOutBuffer
BuildShortInts(buf, thisId, pDestAddress, pPacketType, pData) ==
    FinishShortInts(EncodeTuples([buf |-> prepareHeader(buf, thisId, pDestAddress,
                                                        pPacketType, 1),
                                  x |-> 7, n |-> 0, raised |-> "none", stop |-> FALSE],
                                 pData))

\* a copy loop that breaks one byte later, at OUT_BUFFER_SIZE - 1
CopyByte_BreaksLate(st, byte) ==
    IF st.stop \/ st.raised # "none" THEN st
    ELSE [Store(st, byte) EXCEPT !.stop = (st.x + 1 = OUT_BUFFER_SIZE - 1)]

\* one pass of the copy loop of sendString; it breaks when x reaches
\* OUT_BUFFER_SIZE - 2
CopyByte(st, byte) ==
    IF st.stop \/ st.raised # "none" THEN st
    ELSE [Store(st, byte) EXCEPT !.stop = (st.x + 1 = OUT_BUFFER_SIZE - 2)]

RECURSIVE CopyText(_, _)
\* the copy loop of sendString, run by halves
CopyText(st, msgBytes) ==
    IF msgBytes = <<>> \/ st.stop \/ st.raised # "none" THEN st
    ELSE IF Len(msgBytes) = 1 THEN CopyByte(st, msgBytes[1])
    ELSE CopyText(CopyText(st, Take(msgBytes, Len(msgBytes) \div 2)),
                  Drop(msgBytes, Len(msgBytes) \div 2))

\* the null terminator, stored if x < OUT_BUFFER_SIZE - 1
Terminate(t) ==
    IF t.raised = "none" /\ t.x < OUT_BUFFER_SIZE - 1 THEN Store(t, 0) ELSE t

\* what follows the terminator: the checksum
FinishString(z) ==
    IF z.raised # "none"
    THEN [buf |-> z.buf, len |-> 0, raised |-> z.raised]
    ELSE FinishBuild(calculateChecksumAndStoreInBuffer(z.buf, z.x))

\* sendString up to the call of sendOutBuffer: [buf, len, raised]
BuildString(buf, thisId, pDestAddress, pPacketType, msgBytes) ==
    FinishString(Terminate(CopyText([buf |-> prepareHeader(buf, thisId, pDestAddress,
                                                           pPacketType,
                                                           Len(msgBytes) + 1),
                                     x |-> 7, n |-> 0, raised |-> "none",
                                     stop |-> FALSE],
                                    msgBytes)))

-----------------------------------------------------------------------------
(* Initial values shared by the specifications *)

NoObs ==
    [polled |-> FALSE, ret |-> "none", raised |-> "none", got |-> 0,
     consumed |-> <<>>, recvZero |-> FALSE, accepted |-> FALSE,
     disconnected |-> FALSE, tickRet |-> 0, sent |-> <<>>, afterClose |-> FALSE]

NoTrack ==
    [full |-> <<>>, garbage |-> 0, clean |-> FALSE, bytewise |-> FALSE,
     sincePoll |-> 0, fed |-> 0, taken |-> 0, reported |-> 0, polled |-> FALSE,
     cutHeader |-> FALSE, cutShort |-> FALSE]

NoEnc ==
    [phase |-> "off", type |-> NO_PKT, payload |-> <<>>, last |-> 0, ret |-> 0,
     pollRet |-> "none"]

NoCall ==
    [op |-> "none", n |-> 0]

InitCommon ==
    /\ call = NoCall
    /\ connected = FALSE
    /\ receiveBuf = <<>>
    /\ inBuffer = InitInBuffer
    /\ outBuffer = InitOutBuffer
    /\ crashed = FALSE
    /\ pending = FALSE
    /\ sock = <<>>
    /\ peerClosed = FALSE
    /\ plan = <<>>
    /\ planKind = "none"
    /\ plansLeft = MaxPlans
    /\ epoch = 0
    /\ ringEpoch = <<>>
    /\ pktBytes = <<>>
    /\ pktEpochs = <<>>
    /\ lastDone = <<>>
    /\ track = NoTrack
    /\ obs = NoObs

-----------------------------------------------------------------------------
(* SpecEnc: a PacketTool with identifier RemoteDeviceIdentifier builds     *)
(* packets in its outBuffer, one after the other, each addressed to a      *)
(* PacketTool with identifier ThisDeviceIdentifier, whose framer is fed    *)
(* the bytes and polled.                                                   *)

EncTypes == {GET_DEVICE_INFO, LOG_MESSAGE}

EncByteVals == {0, 1, 251}

RECURSIVE SeqsUpTo(_, _)
\* the sequences over S of length at most n
SeqsUpTo(S, n) ==
    IF n = 0 THEN {<<>>}
    ELSE LET shorter == SeqsUpTo(S, n - 1) IN
         shorter \cup {Append(q, v) : q \in {r \in shorter : Len(r) = n - 1}, v \in S}

EncPayloads == SeqsUpTo(EncByteVals, MaxPayload)

RECURSIVE AppendAll(_, _)
\* EthernetLink.handleReceive appending the bytes read, one by one
AppendAll(b, bytes) ==
    IF bytes = <<>> THEN b ELSE AppendAll(CB_append(b, Head(bytes)), Tail(bytes))

EncInit ==
    /\ InitCommon
    /\ pt = setStreams(InitPacketTool)
    /\ enc = [NoEnc EXCEPT !.phase = "idle"]

\* prepareHeader, the payload bytes, calculateChecksumAndStoreInBuffer
EncBuild ==
    /\ enc.phase \in {"idle", "polled"}
    /\ \E type \in EncTypes, payload \in EncPayloads :
        LET hdr == prepareHeader(outBuffer, RemoteDeviceIdentifier,
                                 ThisDeviceIdentifier, type, Len(payload))
            st == StoreAll([buf |-> hdr, x |-> 7, n |-> 0, raised |-> "none"], payload)
            c == calculateChecksumAndStoreInBuffer(st.buf, st.x)
        IN
        /\ outBuffer' = c.buf
        /\ receiveBuf' = AppendAll(receiveBuf, OutBytes(c.buf, c.ret))
        /\ enc' = [phase |-> "built", type |-> type, payload |-> payload,
                   last |-> st.x, ret |-> c.ret, pollRet |-> "none"]
    /\ UNCHANGED <<call, connected, pt, inBuffer, crashed, pending, sock, peerClosed, plan,
                   planKind, plansLeft, epoch, ringEpoch, pktBytes, pktEpochs,
                   lastDone, track, obs>>

EncPoll ==
    /\ enc.phase = "built"
    /\ LET r == checkForPacketReady(pt, receiveBuf, inBuffer, ThisDeviceIdentifier) IN
        /\ pt' = r.p
        /\ receiveBuf' = r.rb
        /\ inBuffer' = r.buf
        /\ enc' = [enc EXCEPT !.phase = "polled", !.pollRet = r.ret]
    /\ UNCHANGED <<call, connected, outBuffer, crashed, pending, sock, peerClosed, plan,
                   planKind, plansLeft, epoch, ringEpoch, pktBytes, pktEpochs,
                   lastDone, track, obs>>

EncNext ==
    \/ EncBuild
    \/ EncPoll

SpecEnc == EncInit /\ [][EncNext]_vars

\* C1: every packet the encoder builds, after any earlier packets built in the
\* same outBuffer, is reported ready by the addressed framer with the same
\* packet type, payload length and payload bytes.
C1_RoundTrip ==
    enc.phase = "polled" =>
        /\ enc.pollRet = "true"
        /\ pt.pktType = enc.type
        /\ pt.numPktDataBytes = Len(enc.payload)
        /\ \A i \in 1..Len(enc.payload) : At(inBuffer, i - 1) = enc.payload[i]

\* C2: after calculateChecksumAndStoreInBuffer(pLastIndex) the byte at pLastIndex
\* is (0x100 - sum of bytes 0..pLastIndex-1) & 0xFF, bytes 0..pLastIndex sum to 0
\* modulo 256, and pLastIndex + 1 is returned.
C2_ChecksumStored ==
    enc.phase \in {"built", "polled"} =>
        /\ At(outBuffer, enc.last) = (256 - SumRange(outBuffer, 0, enc.last)) % 256
        /\ SumRange(outBuffer, 0, enc.last + 1) % 256 = 0
        /\ enc.ret = enc.last + 1

-----------------------------------------------------------------------------
(* The wire format, as a reference: what a packet is, independent of the   *)
(* encoder and of the framer's own bookkeeping.                            *)

WirePacket(dest, src, type, payload) ==
    LET h == <<170, 85, dest, src, type, Len(payload) \div 256, Len(payload) % 256>>
             \o payload
    IN Append(h, (256 - (SumSeq(h) % 256)) % 256)

DeclaredLen(b) ==
    b[6] * 256 + b[7]

\* b is a header followed by fewer bytes than it declares
InPacket(b) ==
    Len(b) >= 7 /\ Len(b) < 8 + DeclaredLen(b)

\* b is a header, the payload it declares and one checksum byte
Complete(b) ==
    Len(b) >= 7 /\ Len(b) = 8 + DeclaredLen(b)

\* the reference framing of the bytes a poll consumed
RefNext(b, consumed) ==
    IF InPacket(b) THEN b \o consumed
    ELSE IF Len(consumed) >= 7 /\ consumed[1] = 170 /\ consumed[2] = 85 THEN consumed
    ELSE <<>>

\* the tags of the consumed bytes follow the same framing
RefNextTags(b, consumed, tags, consumedTags) ==
    IF InPacket(b) THEN tags \o consumedTags
    ELSE IF Len(consumed) >= 7 /\ consumed[1] = 170 /\ consumed[2] = 85 THEN consumedTags
    ELSE <<>>

ValidFor(b, id) ==
    Complete(b) /\ b[3] = id /\ SumSeq(b) % 256 = 0

PayloadOf(b) ==
    SubSeq(b, 8, Len(b) - 1)

\* the poll recorded in obs consumed the last byte of the packet in pktBytes
CompletedNow ==
    obs.polled /\ obs.consumed # <<>> /\ Complete(pktBytes)

-----------------------------------------------------------------------------
(* What the peer sends *)

\* a device identifier that is neither this device's nor the remote's
OtherDeviceIdentifier == ThisDeviceIdentifier + 1

\* type codes the peer may send that are no member of PacketTypeEnum
UnknownTypeCodes == {238}

ValidPackets ==
    {WirePacket(ThisDeviceIdentifier, RemoteDeviceIdentifier, GET_DEVICE_INFO, <<>>),
     WirePacket(ThisDeviceIdentifier, RemoteDeviceIdentifier, LOG_MESSAGE, <<1>>),
     WirePacket(ThisDeviceIdentifier, RemoteDeviceIdentifier, LOG_MESSAGE, <<170, 85>>),
     WirePacket(ThisDeviceIdentifier, RemoteDeviceIdentifier, HAND_GESTURE_DATA, <<0, 7>>)}

ForeignPackets ==
    {WirePacket(OtherDeviceIdentifier, RemoteDeviceIdentifier, LOG_MESSAGE, <<1>>),
     WirePacket(RemoteDeviceIdentifier, ThisDeviceIdentifier, GET_DEVICE_INFO, <<>>)}

\* every single-bit flip in one payload byte of b
FlipsOf(b) ==
    {[b EXCEPT ![i] = FlipBit(@, k)] : i \in 8..(Len(b) - 1), k \in 0..7}

FlippedPackets ==
    UNION {FlipsOf(b) : b \in ValidPackets}

\* a valid packet with its checksum byte off by one
BadChecksumPackets ==
    {[b EXCEPT ![Len(b)] = (@ + 1) % 256] : b \in ValidPackets}

UnknownTypePackets ==
    {WirePacket(ThisDeviceIdentifier, RemoteDeviceIdentifier, code, <<>>) :
        code \in UnknownTypeCodes}

\* n bytes, none of them 0xaa
Garbage(n) ==
    [i \in 1..n |-> IF i % 2 = 1 THEN 85 ELSE 0]

GarbageThenValid ==
    {[kind |-> "garbage", garbage |-> n, bytes |-> Garbage(n) \o b] :
        n \in 1..MaxGarbage,
        b \in {WirePacket(ThisDeviceIdentifier, RemoteDeviceIdentifier, LOG_MESSAGE, <<1>>)}}

\* 0xaa followed by a byte that is not 0x55
BadSync ==
    {[kind |-> "badsync", garbage |-> 0, bytes |-> <<170, 0, 85>>]}

\* 0xaa followed by a valid packet for this device, whose own 0xaa is the byte
\* that is not 0x55
SyncThenValid ==
    {[kind |-> "aasync", garbage |-> 1,
      bytes |-> <<170>> \o WirePacket(ThisDeviceIdentifier, RemoteDeviceIdentifier,
                                      LOG_MESSAGE, <<1>>)]}

Plans(kind, S) ==
    {[kind |-> kind, garbage |-> 0, bytes |-> b] : b \in S}

FramerPlans ==
    Plans("valid", ValidPackets) \cup Plans("foreign", ForeignPackets)
        \cup Plans("flip", FlippedPackets) \cup Plans("badsum", BadChecksumPackets)
        \cup Plans("unknown", UnknownTypePackets) \cup GarbageThenValid \cup BadSync
        \cup SyncThenValid

FollowPlans ==
    Plans("valid",
          {WirePacket(ThisDeviceIdentifier, RemoteDeviceIdentifier, GET_DEVICE_INFO, <<>>),
           WirePacket(ThisDeviceIdentifier, RemoteDeviceIdentifier, LOG_MESSAGE, <<170, 85>>)})

-----------------------------------------------------------------------------
(* SpecFramer: a PacketTool with identifier ThisDeviceIdentifier, its ring *)
(* buffer fed byte by byte as EthernetLink.handleReceive appends what it   *)
(* reads, and polled with checkForPacketReady at any moment.               *)

\* a PacketTool after construction and setStreams; every specification of the
\* PacketTool on its own starts here
FramerInit ==
    /\ InitCommon
    /\ pt = setStreams(InitPacketTool)
    /\ enc = NoEnc

FChoose ==
    /\ plan = <<>>
    /\ plansLeft > 0
    /\ \E pl \in (IF plansLeft = MaxPlans THEN FramerPlans ELSE FollowPlans) :
        /\ plan' = pl.bytes
        /\ planKind' = pl.kind
        /\ track' = [NoTrack EXCEPT
                        !.full = pl.bytes,
                        !.garbage = pl.garbage,
                        !.clean = (receiveBuf = <<>> /\ ~pt.headerValid),
                        !.bytewise = TRUE]
    /\ plansLeft' = plansLeft - 1
    /\ UNCHANGED <<call, connected, receiveBuf, pt, inBuffer, outBuffer, crashed, pending,
                   sock, peerClosed, epoch, ringEpoch, pktBytes, pktEpochs, lastDone,
                   obs, enc>>

\* handleReceive: receiveBuf.append(byte)
FFeed ==
    /\ plan # <<>>
    /\ receiveBuf' = CB_append(receiveBuf, Head(plan))
    /\ plan' = Tail(plan)
    /\ track' = [track EXCEPT
                    !.fed = @ + 1,
                    !.bytewise = @ /\ track.sincePoll = 0,
                    !.sincePoll = IF @ = 0 THEN 1 ELSE 2]
    /\ UNCHANGED <<call, connected, pt, inBuffer, outBuffer, crashed, pending, sock,
                   peerClosed, planKind, plansLeft, epoch, ringEpoch, pktBytes,
                   pktEpochs, lastDone, obs, enc>>

\* one call of checkForPacketReady
FPoll ==
    /\ LET r == checkForPacketReady(pt, receiveBuf, inBuffer, ThisDeviceIdentifier)
           consumed == Take(receiveBuf, Len(receiveBuf) - Len(r.rb))
       IN
        /\ pt' = r.p
        /\ receiveBuf' = r.rb
        /\ inBuffer' = r.buf
        /\ pktBytes' = RefNext(pktBytes, consumed)
        /\ lastDone' = IF Complete(pktBytes) THEN pktBytes ELSE lastDone
        /\ obs' = [NoObs EXCEPT !.polled = TRUE, !.ret = r.ret, !.raised = r.raised,
                                !.consumed = consumed]
        /\ track' = [track EXCEPT
                        !.taken = @ + Len(consumed),
                        !.reported = IF r.ret = "true" THEN @ + 1 ELSE @,
                        !.polled = TRUE,
                        !.bytewise = @ /\ track.sincePoll = 1,
                        !.sincePoll = 0]
    /\ UNCHANGED <<call, connected, outBuffer, crashed, pending, sock, peerClosed, plan,
                   planKind, plansLeft, epoch, ringEpoch, pktEpochs, enc>>

FramerNext ==
    \/ FChoose
    \/ FFeed
    \/ FPoll

SpecFramer == FramerInit /\ [][FramerNext]_vars

-----------------------------------------------------------------------------
(* Claims about the framer, checked under SpecFramer *)

JustPolled ==
    track.polled /\ track.sincePoll = 0

\* C3: checkForPacketReady returns true only when it has consumed a complete
\* packet whose header, payload and checksum bytes sum to 0 modulo 256 and whose
\* destination is this device; in every other case it returns false.
C3_TrueIffValidElseFalse ==
    obs.polled =>
        IF CompletedNow /\ ValidFor(pktBytes, ThisDeviceIdentifier)
        THEN obs.ret = "true"
        ELSE obs.ret = "false"

\* the half of C3 that holds of the code: a poll never returns true for anything
\* but a complete, checksum-correct packet addressed to this device
C3_TrueOnlyWhenValid ==
    obs.polled /\ obs.ret = "true" =>
        CompletedNow /\ ValidFor(pktBytes, ThisDeviceIdentifier)

IsForeign(b) ==
    Complete(b) /\ SumSeq(b) % 256 = 0 /\ b[3] # ThisDeviceIdentifier

\* C4: a complete, checksum-correct packet for another destination is never
\* reported ready: the poll that has its payload and checksum available consumes
\* them, returns false and leaves headerValid false, and a valid packet for this
\* device that follows it is reported ready.
C4_ForeignDiscarded ==
    /\ CompletedNow /\ IsForeign(pktBytes) =>
            obs.ret = "false" /\ ~pt.headerValid
    /\ JustPolled /\ obs.raised = "none" =>
            (pt.headerValid <=> InPacket(pktBytes))
    /\ JustPolled /\ InPacket(pktBytes) /\ pktBytes[3] # ThisDeviceIdentifier =>
            Len(receiveBuf) < 8 + DeclaredLen(pktBytes) - Len(pktBytes)
    /\ CompletedNow /\ ValidFor(pktBytes, ThisDeviceIdentifier) /\ IsForeign(lastDone) =>
            obs.ret = "true"

C4_Witness ==
    /\ IsForeign(lastDone)
    /\ CompletedNow
    /\ ValidFor(pktBytes, ThisDeviceIdentifier)
    /\ obs.ret = "true"
    /\ ~pt.headerValid

\* C5: a valid packet for this device with one bit of one payload byte flipped is
\* never reported ready; the poll that consumes it returns false.
C5_FlippedRejected ==
    /\ planKind = "flip" /\ track.clean => track.reported = 0
    /\ obs.polled /\ obs.ret = "true" => pktBytes \notin FlippedPackets
    /\ planKind = "flip" /\ track.clean /\ JustPolled /\ track.fed = Len(track.full) =>
            track.taken = Len(track.full) /\ receiveBuf = <<>>

C5_Witness ==
    /\ planKind = "flip"
    /\ track.clean
    /\ CompletedNow
    /\ pktBytes = track.full
    /\ pktBytes \in FlippedPackets
    /\ obs.ret = "false"

\* C6: while the bytes of one valid packet for this device arrive (one at a time,
\* one poll after each, or in any other pieces) every poll returns false except
\* the poll that consumes the checksum byte, which returns true with the packet's
\* type, length and payload; the header fields parsed on an earlier poll are kept
\* across the polls in between.
C6_PartialDelivery ==
    planKind = "valid" /\ track.clean /\ JustPolled =>
        LET full == track.full
            L == Len(track.full)
            d == track.fed
        IN
        /\ d < L => obs.ret = "false" /\ track.reported = 0
        /\ d < 7 => ~pt.headerValid /\ Len(receiveBuf) = d
        /\ (d >= 7 /\ d < L) =>
                /\ pt.headerValid
                /\ pt.destDeviceIdentifierFromReceivedPkt = full[3]
                /\ pt.sourceDeviceIdentifierFromReceivedPkt = full[4]
                /\ pt.pktType = full[5]
                /\ pt.numPktDataBytes = L - 8
                /\ pt.pktChecksum = SumSeq(Take(full, 7))
                /\ Len(receiveBuf) = d - 7
        /\ d = L =>
                /\ track.reported = 1
                /\ obs.ret = (IF obs.consumed # <<>> THEN "true" ELSE "false")
                /\ pt.pktType = full[5]
                /\ pt.numPktDataBytes = L - 8
                /\ \A i \in 1..(L - 8) : At(inBuffer, i - 1) = full[7 + i]

C6_Witness ==
    /\ planKind = "valid"
    /\ track.clean
    /\ track.bytewise
    /\ JustPolled
    /\ track.fed = Len(track.full)
    /\ Len(track.full) >= 10
    /\ obs.ret = "true"

\* C7: N >= 1 garbage bytes, none 0xaa, followed by a valid packet for this
\* device: polling discards exactly the N garbage bytes and no byte of the packet,
\* then reports the packet ready with its type and payload, and resyncCount has
\* been incremented at least once.
C7_Resync ==
    planKind = "garbage" /\ track.clean /\ track.polled =>
        LET N == track.garbage
            L == Len(track.full)
            pkt == Drop(track.full, track.garbage)
        IN
        /\ track.taken <= N \/ track.taken \in {N + 7, L}
        /\ (track.taken > N /\ (track.taken < L \/ obs.consumed # <<>>)) =>
                pktBytes = Take(pkt, track.taken - N)
        /\ track.taken > 0 => pt.resyncCount >= 1
        /\ track.reported = (IF track.taken = L THEN 1 ELSE 0)
        /\ obs.ret = "true" =>
                /\ pktBytes = pkt
                /\ pt.pktType = pkt[5]
                /\ pt.numPktDataBytes = Len(pkt) - 8
                /\ \A i \in 1..(Len(pkt) - 8) : At(inBuffer, i - 1) = pkt[7 + i]
        /\ (track.fed = L /\ track.sincePoll = 0 /\ obs.consumed = <<>>) =>
                track.reported = 1

C7_Witness ==
    /\ planKind = "garbage"
    /\ track.clean
    /\ track.garbage >= 7
    /\ obs.ret = "true"
    /\ pktBytes = Drop(track.full, track.garbage)
    /\ pt.resyncCount >= 2

-----------------------------------------------------------------------------
(* Spec: the program.  The main loop calls ControllerHandler.doRunTimeTasks *)
(* over and over; a peer asks for connections, sends bytes and closes.     *)
(* pktRcvCount is left out: it only counts and is never read.              *)

\* what the peer of a connection may send
SysPlans ==
    FollowPlans
        \cup Plans("valid", {WirePacket(ThisDeviceIdentifier, RemoteDeviceIdentifier,
                                        HAND_GESTURE_DATA, <<0, 7>>)})
        \cup Plans("foreign", {WirePacket(OtherDeviceIdentifier, RemoteDeviceIdentifier,
                                          LOG_MESSAGE, <<1>>)})
        \cup Plans("badsum", {[b EXCEPT ![Len(b)] = (@ + 1) % 256] :
                        b \in {WirePacket(ThisDeviceIdentifier, RemoteDeviceIdentifier,
                                          LOG_MESSAGE, <<1>>)}})
        \cup Plans("unknown", UnknownTypePackets)
        \cup {pl \in GarbageThenValid : pl.garbage = 1}
        \cup BadSync

\* the peer's bytes travel in segments: the first 3 bytes of a plan, the bytes
\* up to the 7th, the rest; rest is what is still to be sent of full
SegmentLen(full, rest) ==
    IF Len(full) - Len(rest) < 3 /\ Len(full) > 3 THEN 3 - (Len(full) - Len(rest))
    ELSE IF Len(full) - Len(rest) < 7 /\ Len(full) > 7 THEN 7 - (Len(full) - Len(rest))
    ELSE Len(rest)

\* what prepareHandDataForHost hands to the encoder: a list of tuples of ints
HandsInputs ==
    {<<<<-2, 300>>>>}

\* what socket.send may do: it succeeds, returns 0 (sendOutBuffer raises
\* SocketBroken) or raises; it fails only on a connection the peer has left
SendOutcomes(closed) ==
    IF closed
    THEN {"none", "SocketBroken", "ConnectionResetError", "ConnectionAbortedError",
          "BrokenPipeError"}
    ELSE {"none"}

\* mutant: the except clause for SocketBroken is missing
CaughtByDoRunTimeTasks_NoSocketBroken(e) ==
    e \in {"ConnectionResetError", "ConnectionAbortedError"}

\* the except clauses of doRunTimeTasks
CaughtByDoRunTimeTasks(e) ==
    e \in {"ConnectionResetError", "ConnectionAbortedError", "SocketBroken"}

\* what select and recv may do in handleReceive: "read" (every byte that is
\* ready is read), "inError" (select reports the socket in error: nothing is
\* read) and, on a connection the peer has left, "reset" (recv raises)
RecvModes(closed) ==
    IF closed THEN {"read", "inError", "reset"} ELSE {"read", "inError"}

\* EthernetLink.handleReceive: reads every byte that is ready; a read of zero
\* bytes (the peer closed) raises SocketBroken
handleReceive(rb, s, closed, recvMode) ==
    IF recvMode = "inError"
    THEN [rb |-> rb, sock |-> s, raised |-> "none"]
    ELSE IF recvMode = "reset"
    THEN [rb |-> rb, sock |-> <<>>, raised |-> "ConnectionResetError"]
    ELSE [rb |-> AppendAll(rb, s), sock |-> <<>>,
          raised |-> IF closed THEN "SocketBroken" ELSE "none"]

\* EthernetLink.disconnect up to the shutdown and close of the socket
EthernetLink_disconnect(rb) ==
    [rb |-> CB_reset(rb), connected |-> FALSE]

\* mutant: the PacketTool is not reset
disconnect_LinkOnly(p, rb) ==
    [p |-> p, rb |-> EthernetLink_disconnect(rb).rb,
     connected |-> EthernetLink_disconnect(rb).connected]

\* ControllerHandler.disconnect
disconnect(p, rb) ==
    [p |-> ResetFields(p), rb |-> EthernetLink_disconnect(rb).rb,
     connected |-> EthernetLink_disconnect(rb).connected]

\* handleGetDeviceInfoPacket once sendString has built the greeting g
GreetingSent(st, g, raised) ==
    [st EXCEPT !.outb = g.buf,
               !.raised = raised,
               !.sent = IF raised = "none" THEN Append(@, OutBytes(g.buf, g.len)) ELSE @,
               !.value = IF raised = "none" THEN 1 ELSE 0]

\* handleGetDeviceInfoPacket: sendString of the greeting in a LOG_MESSAGE packet
handleGetDeviceInfoPacket(st, sendOutcome, g) ==
    GreetingSent(st, g, IF g.raised # "none" THEN g.raised ELSE sendOutcome)

\* mutant: a LOG_MESSAGE packet is answered like a GET_DEVICE_INFO packet
handlePacket_AnswersLog(st, sendOutcome) ==
    IF st.p.pktType \in {GET_DEVICE_INFO, LOG_MESSAGE}
    THEN handleGetDeviceInfoPacket(st, sendOutcome,
             BuildString(st.outb, ThisDeviceIdentifier, RemoteDeviceIdentifier,
                         LOG_MESSAGE, GreetingBytes))
    ELSE st

\* ControllerHandler.handlePacket on the state st left by the poll
handlePacket(st, sendOutcome) ==
    IF st.p.pktType = GET_DEVICE_INFO
    THEN handleGetDeviceInfoPacket(st, sendOutcome,
             BuildString(st.outb, ThisDeviceIdentifier, RemoteDeviceIdentifier,
                         LOG_MESSAGE, GreetingBytes))
    ELSE IF st.p.pktType = LOG_MESSAGE
    THEN [st EXCEPT !.value = 1]
    ELSE st

\* sendHandDataToHost once the packet hd is built (due: the send timer has run
\* out; when it has not, nothing is built and nothing is sent)
HandDataSent(due, sendOutcome, hd) ==
    [buf |-> hd.buf,
     sent |-> IF due /\ hd.raised = "none" /\ sendOutcome = "none"
              THEN <<OutBytes(hd.buf, hd.len)>> ELSE <<>>,
     raised |-> IF hd.raised # "none" THEN hd.raised
                ELSE IF due THEN sendOutcome ELSE "none"]

\* ControllerHandler.sendHandDataToHost
sendHandDataToHost(outb, due, handsData, sendOutcome) ==
    HandDataSent(due, sendOutcome,
        IF due
        THEN BuildShortInts(outb, ThisDeviceIdentifier, RemoteDeviceIdentifier,
                            HAND_GESTURE_DATA, handsData)
        ELSE [buf |-> outb, len |-> 0, raised |-> "none"])

\* what handleCommunications leaves behind when it returns or raises after the
\* hand data (hd), the receive (rc) and the poll (c)
CommState(p, rb, inb, s, hd, appended, consumed, polled, ret, recvZero, raised) ==
    [p |-> p, rb |-> rb, inb |-> inb, outb |-> hd.buf, sock |-> s, sent |-> hd.sent,
     appended |-> appended, consumed |-> consumed, polled |-> polled, ret |-> ret,
     recvZero |-> recvZero, raised |-> raised, value |-> 0]

\* handleCommunications from checkForPacketReady on
AfterPoll(hd, sendOutcome, had, rc, c) ==
    IF c.ret = "true"
    THEN handlePacket(CommState(c.p, c.rb, c.buf, rc.sock, hd, Len(rc.rb) - had,
                                Take(rc.rb, Len(rc.rb) - Len(c.rb)), TRUE, c.ret,
                                FALSE, c.raised),
                      sendOutcome)
    ELSE CommState(c.p, c.rb, c.buf, rc.sock, hd, Len(rc.rb) - had,
                   Take(rc.rb, Len(rc.rb) - Len(c.rb)), TRUE, c.ret, FALSE, c.raised)

\* handleCommunications from EthernetLink.doRunTimeTasks on
AfterReceive(p, inb, hd, sendOutcome, had, rc) ==
    IF rc.raised # "none"
    THEN CommState(p, rc.rb, inb, rc.sock, hd, Len(rc.rb) - had, <<>>, FALSE, "none",
                   rc.raised = "SocketBroken", rc.raised)
    ELSE AfterPoll(hd, sendOutcome, had, rc,
                   checkForPacketReady(p, rc.rb, inb, ThisDeviceIdentifier))

\* handleCommunications from the return of sendHandDataToHost on
AfterHandData(p, rb, inb, s, closed, sendOutcome, recvMode, hd) ==
    IF hd.raised # "none"
    THEN CommState(p, rb, inb, s, hd, 0, <<>>, FALSE, "none", FALSE, hd.raised)
    ELSE AfterReceive(p, inb, hd, sendOutcome, Len(rb),
                      handleReceive(rb, s, closed, recvMode))

\* ControllerHandler.handleCommunications: sendHandDataToHost,
\* EthernetLink.doRunTimeTasks, checkForPacketReady, handlePacket
handleCommunications(p, rb, inb, outb, s, closed, due, handsData, sendOutcome, recvMode) ==
    AfterHandData(p, rb, inb, s, closed, sendOutcome, recvMode,
                  sendHandDataToHost(outb, due, handsData, sendOutcome))

Init ==
    /\ InitCommon
    /\ pt = InitPacketTool
    /\ enc = NoEnc

\* a remote device asks for a connection, also while another one is connected
PeerRequest ==
    /\ ~crashed
    /\ ~pending
    /\ epoch < MaxConnections
    /\ pending' = TRUE
    /\ UNCHANGED <<call, connected, receiveBuf, pt, inBuffer, outBuffer, crashed, sock,
                   peerClosed, plan, planKind, plansLeft, epoch, ringEpoch, pktBytes,
                   pktEpochs, lastDone, track, obs, enc>>

\* the connected peer decides what to send; the peer of one connection sends
\* one plan
PeerPlan ==
    /\ ~crashed
    /\ connected
    /\ ~peerClosed
    /\ track.full = <<>>
    /\ plansLeft > 0
    /\ \E pl \in (IF plansLeft = MaxPlans THEN SysPlans ELSE FollowPlans) :
        /\ plan' = pl.bytes
        /\ planKind' = pl.kind
        /\ track' = [track EXCEPT !.full = pl.bytes]
    /\ plansLeft' = plansLeft - 1
    /\ UNCHANGED <<call, connected, receiveBuf, pt, inBuffer, outBuffer, crashed, pending,
                   sock, peerClosed, epoch, ringEpoch, pktBytes, pktEpochs, lastDone,
                   obs, enc>>

\* one more segment of the plan reaches the node's socket
PeerSend ==
    /\ ~crashed
    /\ connected
    /\ ~peerClosed
    /\ plan # <<>>
    /\ sock' = sock \o Take(plan, SegmentLen(track.full, plan))
    /\ plan' = Drop(plan, SegmentLen(track.full, plan))
    /\ UNCHANGED <<call, connected, receiveBuf, pt, inBuffer, outBuffer, crashed, pending,
                   peerClosed, planKind, plansLeft, epoch, ringEpoch, pktBytes,
                   pktEpochs, lastDone, track, obs, enc>>

\* the peer closes its end, whatever it still had to send
PeerClose ==
    /\ ~crashed
    /\ connected
    /\ ~peerClosed
    /\ peerClosed' = TRUE
    /\ UNCHANGED <<call, connected, receiveBuf, pt, inBuffer, outBuffer, crashed, pending,
                   sock, plan, planKind, plansLeft, epoch, ringEpoch, pktBytes,
                   pktEpochs, lastDone, track, obs, enc>>

\* doRunTimeTasks while not connected: connectToRemoteIfRequestPending, setStreams
TickIdle ==
    /\ connected' = pending
    /\ pending' = FALSE
    /\ pt' = IF pending THEN setStreams(pt) ELSE pt
    /\ epoch' = IF pending THEN epoch + 1 ELSE epoch
    /\ sock' = <<>>
    /\ peerClosed' = IF pending THEN FALSE ELSE peerClosed
    /\ obs' = [NoObs EXCEPT !.accepted = pending,
                            !.tickRet = IF pending THEN 1 ELSE 0,
                            !.afterClose = obs.recvZero]
    /\ UNCHANGED <<call, receiveBuf, inBuffer, outBuffer, crashed, plan, planKind, plansLeft,
                   ringEpoch, pktBytes, pktEpochs, lastDone, track, enc>>

\* doRunTimeTasks while connected: handleCommunications and the except clauses
\* (r: what handleCommunications left behind)
TickConnected(r, closeFails) ==
    LET caught == CaughtByDoRunTimeTasks(r.raised)
        d == disconnect(r.p, r.rb)
        tagsIn == ringEpoch \o [i \in 1..r.appended |-> epoch]
        tagsTaken == Take(tagsIn, Len(r.consumed))
        tagsLeft == Drop(tagsIn, Len(r.consumed))
    IN
    /\ pt' = IF caught THEN d.p ELSE r.p
    /\ receiveBuf' = IF caught THEN d.rb ELSE r.rb
    /\ connected' = IF caught THEN d.connected ELSE connected
    /\ inBuffer' = r.inb
    /\ outBuffer' = r.outb
    /\ sock' = IF caught THEN <<>> ELSE r.sock
    \* SocketBroken raised by close() inside an except clause, and every
    \* exception without an except clause, leave doRunTimeTasks
    /\ crashed' = IF caught THEN closeFails ELSE r.raised # "none"
    /\ ringEpoch' = IF caught THEN (IF d.rb = <<>> THEN <<>> ELSE tagsLeft) ELSE tagsLeft
    /\ pktBytes' = IF caught THEN <<>>
                   ELSE IF r.polled THEN RefNext(pktBytes, r.consumed)
                   ELSE pktBytes
    /\ pktEpochs' = IF caught THEN (IF d.p.headerValid THEN pktEpochs ELSE <<>>)
                    ELSE IF ~r.polled THEN pktEpochs
                    ELSE IF pt.headerValid THEN pktEpochs \o tagsTaken
                    ELSE tagsTaken
    /\ track' = [track EXCEPT
                    !.full = IF caught THEN <<>> ELSE @,
                    !.cutHeader = @ \/ (caught /\ r.p.headerValid),
                    !.cutShort = @ \/ (caught /\ ~r.p.headerValid /\ r.rb # <<>>
                                              /\ Len(r.rb) < 7)]
    /\ obs' = [polled |-> r.polled, ret |-> r.ret, raised |-> r.raised,
               got |-> r.appended, consumed |-> r.consumed, recvZero |-> r.recvZero,
               accepted |-> FALSE, disconnected |-> caught,
               tickRet |-> IF caught \/ r.raised # "none" THEN 0 ELSE r.value,
               sent |-> r.sent, afterClose |-> FALSE]
    \* the peer of a connection the node has left sends nothing more
    /\ plan' = IF caught THEN <<>> ELSE plan
    /\ planKind' = IF caught THEN "none" ELSE planKind
    /\ UNCHANGED <<call, pending, peerClosed, plansLeft, epoch, lastDone, enc>>

\* a node that looks for a new connection whether or not it has one
LooksForConnection_Always(isConnected) ==
    TRUE

\* if not self.ethernetLink.getConnected(), and the same test inside
\* connectToRemoteIfRequestPending
LooksForConnection(isConnected) ==
    ~isConnected

\* one call of ControllerHandler.doRunTimeTasks by the main loop
Tick ==
    /\ ~crashed
    /\ IF ~LooksForConnection(connected)
       THEN \E due \in BOOLEAN, recvMode \in RecvModes(peerClosed) :
            \E handsData \in (IF due THEN HandsInputs ELSE {<<>>}) :
            \E ok \in {handleCommunications(pt, receiveBuf, inBuffer, outBuffer, sock,
                                            peerClosed, due, handsData, "none", recvMode)} :
            \* what socket.send does matters only when something is sent
            \E sendOutcome \in (IF ok.sent = <<>> THEN {"none"}
                                 ELSE SendOutcomes(peerClosed)) :
            \E r \in {IF sendOutcome = "none" THEN ok
                       ELSE handleCommunications(pt, receiveBuf, inBuffer, outBuffer,
                                                 sock, peerClosed, due, handsData,
                                                 sendOutcome, recvMode)} :
            \E closeFails \in (IF CaughtByDoRunTimeTasks(r.raised)
                                THEN BOOLEAN ELSE {FALSE}) :
                TickConnected(r, closeFails)
       ELSE TickIdle

Next ==
    \/ PeerRequest
    \/ PeerPlan
    \/ PeerSend
    \/ PeerClose
    \/ Tick

Spec == Init /\ [][Next]_vars

-----------------------------------------------------------------------------
(* Claims about the program, checked under Spec *)

PacketToolIsReset ==
    /\ ~pt.headerValid
    /\ pt.pktType = NO_PKT
    /\ pt.numPktDataBytes = 0
    /\ pt.numDataBytesPlusChecksumByte = 0
    /\ pt.pktChecksum = 0
    /\ pt.destDeviceIdentifierFromReceivedPkt = 0
    /\ pt.sourceDeviceIdentifierFromReceivedPkt = 0

\* C8: whatever bytes are in the ring buffer (bad sync bytes, wrong checksum,
\* foreign destination, any packet type code 0..255) every call of
\* checkForPacketReady returns true or false without raising, and no protocol
\* noise ends doRunTimeTasks with an exception.
C8_NoiseNeverRaises ==
    /\ obs.polled => obs.ret \in {"true", "false"}
    /\ obs.raised # "ValueError"

\* C9: after ControllerHandler.disconnect, whatever the framer state was,
\* headerValid is false, the cached header fields and the checksum accumulator are
\* 0, the ring buffer is empty and connected is false; no byte received on one
\* connection is buffered during, or part of a packet reported ready on, a later
\* connection.
C9_DisconnectResets ==
    /\ obs.disconnected =>
            PacketToolIsReset /\ receiveBuf = <<>> /\ ~connected
    /\ ~connected => PacketToolIsReset /\ receiveBuf = <<>>
    /\ Len(ringEpoch) = Len(receiveBuf)
    /\ \A i \in 1..Len(ringEpoch) : ringEpoch[i] = epoch
    /\ obs.polled /\ obs.ret = "true" =>
            /\ Len(pktEpochs) >= 8
            /\ \A i \in 1..Len(pktEpochs) : pktEpochs[i] = epoch
            /\ CompletedNow
            /\ ValidFor(pktBytes, ThisDeviceIdentifier)
            /\ pt.pktType = pktBytes[5]
            /\ pt.numPktDataBytes = DeclaredLen(pktBytes)
            /\ \A i \in 1..DeclaredLen(pktBytes) : At(inBuffer, i - 1) = pktBytes[7 + i]

\* a connection was dropped with a header parsed and its payload awaited, and a
\* packet sent on the next connection is reported ready
C9_Witness ==
    /\ track.cutHeader
    /\ epoch = 2
    /\ obs.polled
    /\ obs.ret = "true"
    /\ pt.numPktDataBytes = 2

\* C10: when a socket read returns zero bytes, SocketBroken is raised and
\* doRunTimeTasks catches it, resets the PacketTool and the ring buffer and sets
\* connected to false in that same call, in which no connection is accepted; the
\* next call only looks for a new inbound connection.
C10_RemoteCloseHandled ==
    /\ obs.recvZero =>
            /\ obs.raised = "SocketBroken"
            /\ obs.disconnected
            /\ ~connected
            /\ PacketToolIsReset
            /\ receiveBuf = <<>>
            /\ ~obs.accepted
            /\ ~obs.polled
            /\ obs.tickRet = 0
    /\ obs.afterClose =>
            /\ ~obs.polled
            /\ obs.got = 0
            /\ obs.sent = <<>>
            /\ ~obs.disconnected
            /\ obs.raised = "none"
            /\ obs.accepted = connected
            /\ obs.tickRet = (IF obs.accepted THEN 1 ELSE 0)

\* the call after the one that met the closed socket accepted the connection
\* that had been waiting meanwhile
C10_Witness ==
    /\ obs.afterClose
    /\ obs.accepted
    /\ connected
    /\ epoch = 2
    /\ track.cutShort

-----------------------------------------------------------------------------
(* SpecOrder: the peer sends two valid packets for this device, one after  *)
(* the other; EthernetLink.handleReceive appends the bytes to the ring     *)
(* buffer one by one and checkForPacketReady is polled at any moment, as   *)
(* handleCommunications does once per call. call keeps the history: the    *)
(* packets offered, the bytes arrived, the bytes taken from the ring and   *)
(* the packets reported ready, as the application reads them.              *)

\* the packet type and the payload of a wire packet, as the application reads them
MessageOf(b) ==
    [type |-> b[5], payload |-> PayloadOf(b)]

\* what the application reads after checkForPacketReady returned true
MessageReady(p, buf) ==
    [type |-> p.pktType, payload |-> [i \in 1..p.numPktDataBytes |-> At(buf, i - 1)]]

\* the oldest bytes of b start with the complete packet pkt
StartsWith(b, pkt) ==
    Len(b) >= Len(pkt) /\ Take(b, Len(pkt)) = pkt

OChoose ==
    /\ call.op = "none"
    /\ \E p1 \in ValidPackets, p2 \in ValidPackets :
        /\ plan' = p1 \o p2
        /\ call' = [op |-> "order", offered |-> <<p1, p2>>, arrived |-> <<>>,
                    eaten |-> <<>>, ready |-> <<>>, queued |-> FALSE]
    /\ planKind' = "valid"
    /\ UNCHANGED <<connected, receiveBuf, pt, inBuffer, outBuffer, crashed, pending,
                   sock, peerClosed, plansLeft, epoch, ringEpoch, pktBytes, pktEpochs,
                   lastDone, track, obs, enc>>

\* handleReceive: receiveBuf.append(byte)
OFeed ==
    /\ call.op = "order"
    /\ plan # <<>>
    /\ receiveBuf' = CB_append(receiveBuf, Head(plan))
    /\ plan' = Tail(plan)
    /\ call' = [call EXCEPT !.arrived = Append(@, Head(plan))]
    /\ obs' = NoObs
    /\ UNCHANGED <<connected, pt, inBuffer, outBuffer, crashed, pending, sock,
                   peerClosed, planKind, plansLeft, epoch, ringEpoch, pktBytes,
                   pktEpochs, lastDone, track, enc>>

\* one call of checkForPacketReady
OPoll ==
    /\ call.op = "order"
    /\ \E r \in {checkForPacketReady(pt, receiveBuf, inBuffer, ThisDeviceIdentifier)} :
        /\ pt' = r.p
        /\ receiveBuf' = r.rb
        /\ inBuffer' = r.buf
        /\ obs' = [NoObs EXCEPT !.polled = TRUE, !.ret = r.ret, !.raised = r.raised,
                                !.consumed = Take(receiveBuf, Len(receiveBuf) - Len(r.rb))]
        /\ call' = [call EXCEPT
                       !.eaten = @ \o Take(receiveBuf, Len(receiveBuf) - Len(r.rb)),
                       !.ready = IF r.ret = "true"
                                 THEN Append(@, MessageReady(r.p, r.buf)) ELSE @,
                       !.queued = @ \/ (/\ r.ret = "true"
                                        /\ call.ready = <<>>
                                        /\ StartsWith(r.rb, call.offered[2]))]
    /\ UNCHANGED <<connected, outBuffer, crashed, pending, sock, peerClosed, plan,
                   planKind, plansLeft, epoch, ringEpoch, pktBytes, pktEpochs, lastDone,
                   track, enc>>

OrderNext ==
    \/ OChoose
    \/ OFeed
    \/ OPoll

SpecOrder == FramerInit /\ [][OrderNext]_vars

\* the first n packets offered, as one byte sequence
OfferedBytes(n) ==
    IF n = 0 THEN <<>>
    ELSE IF n = 1 THEN call.offered[1]
    ELSE call.offered[1] \o call.offered[2]

\* C11: the bytes taken from the ring buffer are the bytes that arrived, in
\* arrival order, none skipped; the packets reported ready are the packets
\* sent, in the order sent, so that P1 is reported on an earlier poll than P2;
\* and a poll that reports a packet has taken the bytes up to the end of that
\* packet and no byte of the next one, so that one poll reports one packet.
C11_Ordering ==
    call.op = "order" =>
        /\ call.eaten \o receiveBuf = call.arrived
        /\ Len(call.ready) <= 2
        /\ \A k \in 1..Len(call.ready) : call.ready[k] = MessageOf(call.offered[k])
        /\ obs.ret = "true" =>
            /\ call.eaten = OfferedBytes(Len(call.ready))
            /\ obs.consumed # <<>>
        /\ Len(call.eaten) >= Len(OfferedBytes(1)) + Len(OfferedBytes(2)) =>
            Len(call.ready) = 2

\* both packets were in the ring buffer when a poll reported the first one,
\* a later poll reported the second one, and the two differ
C11_Witness ==
    /\ call.op = "order"
    /\ call.queued
    /\ Len(call.ready) = 2
    /\ call.ready[1] # call.ready[2]
    /\ obs.ret = "true"

-----------------------------------------------------------------------------
(* SpecSend: a PacketTool with identifier ThisDeviceIdentifier sends short *)
(* int series and text messages to RemoteDeviceIdentifier, one after the   *)
(* other out of the same outBuffer.  The inputs run from empty to longer   *)
(* than outBuffer can hold.  call keeps the input of the last call, the    *)
(* outBuffer it found, and the bytes it handed to sendOutBuffer.           *)

\* the number of calls made in a row
MaxSends == 2

\* the 16-bit values that take outBuffer from the header to index OUT_BUFFER_SIZE - 1
FillInts == (OUT_BUFFER_SIZE - 1 - 7) \div 2

\* the text bytes that take outBuffer from the header to index OUT_BUFFER_SIZE - 2
FillText == OUT_BUFFER_SIZE - 2 - 7

\* a tuple of n ints, negative ones and ones above 255 among them
IntTuple(n) ==
    [i \in 1..n |-> i - 3]

\* a list of n tuples of two ints each, as prepareHandDataForHost makes them
PairList(n) ==
    [i \in 1..n |-> <<i - 3, 300 + i>>]

ShortIntLists ==
    {<<>>,
     <<<<-2, 300>>>>,
     <<<<1>>, <<>>, <<-2, 300, 255>>>>,
     <<IntTuple(FillInts - 1)>>,
     <<IntTuple(FillInts)>>,
     <<IntTuple(FillInts + 1)>>,
     <<IntTuple(FillInts), <<7>>>>,
     <<IntTuple(FillInts - 1), <<7, 8>>>>,
     PairList(FillInts \div 2),
     PairList(FillInts \div 2 + 1)}

\* n bytes of text
TextBytes(n) ==
    [i \in 1..n |-> 32 + (i % 95)]

Texts ==
    {<<>>, GreetingBytes, <<72, 0, 105>>, <<195, 169>>,
     TextBytes(FillText - 1), TextBytes(FillText), TextBytes(FillText + 1),
     TextBytes(OUT_BUFFER_SIZE + 2)}

RECURSIVE Flatten(_)
\* the ints of a list of tuples, in order
Flatten(pData) ==
    IF pData = <<>> THEN <<>>
    ELSE IF Len(pData) = 1 THEN pData[1]
    ELSE Flatten(Take(pData, Len(pData) \div 2)) \o Flatten(Drop(pData, Len(pData) \div 2))

\* the big-endian two-byte encoding of a series of ints
BigEndianPairs(ints) ==
    [i \in 1..(2 * Len(ints)) |->
        IF i % 2 = 1 THEN (ints[(i + 1) \div 2] \div 256) % 256
        ELSE ints[i \div 2] % 256]

\* s is a prefix of t
IsPrefix(s, t) ==
    Len(s) <= Len(t) /\ \A i \in 1..Len(s) : s[i] = t[i]

\* the bytes handed to sendOutBuffer by a call that ended as r = [buf, len, raised]
Handed(r) ==
    IF r.raised = "none" THEN OutBytes(r.buf, r.len) ELSE <<>>

\* sendSignedShortIntsFromListOfTuples(RemoteDeviceIdentifier, HAND_GESTURE_DATA, pData)
SendShortInts ==
    /\ call.n < MaxSends
    /\ \E pData \in ShortIntLists :
       \E r \in {BuildShortInts(outBuffer, ThisDeviceIdentifier, RemoteDeviceIdentifier,
                                HAND_GESTURE_DATA, pData)} :
        /\ outBuffer' = r.buf
        /\ call' = [op |-> "sendSignedShortIntsFromListOfTuples", n |-> call.n + 1,
                    data |-> pData,
                    before |-> outBuffer, raised |-> r.raised, len |-> r.len,
                    handed |-> Handed(r)]
    /\ UNCHANGED <<connected, receiveBuf, pt, inBuffer, crashed, pending, sock,
                   peerClosed, plan, planKind, plansLeft, epoch, ringEpoch, pktBytes,
                   pktEpochs, lastDone, track, obs, enc>>

\* sendString(RemoteDeviceIdentifier, LOG_MESSAGE, pString), msgBytes = str.encode(pString)
SendText ==
    /\ call.n < MaxSends
    /\ \E msgBytes \in Texts :
       \E r \in {BuildString(outBuffer, ThisDeviceIdentifier, RemoteDeviceIdentifier,
                             LOG_MESSAGE, msgBytes)} :
        /\ outBuffer' = r.buf
        /\ call' = [op |-> "sendString", n |-> call.n + 1, data |-> msgBytes,
                    before |-> outBuffer, raised |-> r.raised, len |-> r.len,
                    handed |-> Handed(r), from |-> ThisDeviceIdentifier]
    /\ UNCHANGED <<connected, receiveBuf, pt, inBuffer, crashed, pending, sock,
                   peerClosed, plan, planKind, plansLeft, epoch, ringEpoch, pktBytes,
                   pktEpochs, lastDone, track, obs, enc>>

\* the device identifier of the host computer in the example of prepareHeader
HostDeviceIdentifier == 0

\* "Hello" as UTF-8 bytes
HelloBytes == <<72, 101, 108, 108, 111>>

\* a PacketTool built with identifier 0 sends "Hello": sendString(1, type 5, "Hello")
SendHello ==
    /\ call.n < MaxSends
    /\ \E r \in {BuildString(outBuffer, HostDeviceIdentifier, RemoteDeviceIdentifier,
                             LOG_MESSAGE, HelloBytes)} :
        /\ outBuffer' = r.buf
        /\ call' = [op |-> "sendString", n |-> call.n + 1, data |-> HelloBytes,
                    before |-> outBuffer, raised |-> r.raised, len |-> r.len,
                    handed |-> Handed(r), from |-> HostDeviceIdentifier]
    /\ UNCHANGED <<connected, receiveBuf, pt, inBuffer, crashed, pending, sock,
                   peerClosed, plan, planKind, plansLeft, epoch, ringEpoch, pktBytes,
                   pktEpochs, lastDone, track, obs, enc>>

SendNext ==
    \/ SendShortInts
    \/ SendText
    \/ SendHello

SpecSend == FramerInit /\ [][SendNext]_vars

\* the payload of a packet handed to sendOutBuffer: what lies between the
\* 7 header bytes and the last byte
PayloadHanded ==
    SubSeq(call.handed, 8, Len(call.handed) - 1)

\* no entry of outBuffer at an index of OUT_BUFFER_SIZE or above was changed
NothingPastTheEnd ==
    \A i \in OUT_BUFFER_SIZE..(OUT_BUFFER_SIZE + 1) : At(outBuffer, i) = At(call.before, i)

\* C12: for a list of tuples of any total size sendSignedShortIntsFromListOfTuples
\* does not raise, writes at no index of OUT_BUFFER_SIZE or above, and hands
\* over a payload that is a prefix of the big-endian two-byte encoding of the
\* values in order.
C12_ShortIntsTruncated ==
    call.op = "sendSignedShortIntsFromListOfTuples" =>
        /\ call.raised = "none"
        /\ NothingPastTheEnd
        /\ IsPrefix(PayloadHanded, BigEndianPairs(Flatten(call.data)))

\* the 16-bit big-endian length field of a packet handed to sendOutBuffer
LengthField(b) ==
    b[6] * 256 + b[7]

\* the last byte handed over is the byte calculateChecksumAndStoreInBuffer
\* stores after the bytes before it (a byte it leaves alone when their sum
\* is 0 modulo 256)
ChecksumIsLast(b) ==
    ChecksumByte(SumRange(b, 0, Len(b) - 1)) <= 255 =>
        b[Len(b)] = ChecksumByte(SumRange(b, 0, Len(b) - 1))

C14_TextTruncated ==
    call.op = "sendString" =>
        /\ call.raised = "none"
        /\ Len(call.handed) = call.len
        /\ call.len <= OUT_BUFFER_SIZE
        /\ NothingPastTheEnd
        /\ Len(PayloadHanded) >= 1
        /\ PayloadHanded[Len(PayloadHanded)] = 0
        /\ IsPrefix(Take(PayloadHanded, Len(PayloadHanded) - 1), call.data)
        /\ Len(call.data) <= FillText => Len(PayloadHanded) = Len(call.data) + 1
        /\ Len(call.data) > FillText => Len(PayloadHanded) = FillText + 1
        /\ ChecksumIsLast(call.handed)

\* a string too long for the buffer was sent shortened, with its terminator
C14_Witness ==
    /\ call.op = "sendString"
    /\ call.raised = "none"
    /\ Len(call.data) > FillText
    /\ Len(call.handed) = OUT_BUFFER_SIZE
    /\ call.handed[OUT_BUFFER_SIZE - 1] = 0
    /\ call.handed[OUT_BUFFER_SIZE - 2] # 0

-----------------------------------------------------------------------------
(* SpecFlush: sendOutBuffer(pNumBytesToSend) on an outBuffer that holds a  *)
(* packet.  Every call of byteOut.send is a step of its own: the socket    *)
(* accepts any number of the bytes offered, none included.  call keeps     *)
(* the progress of the loop and the bytes the socket has accepted.         *)

\* the largest pNumBytesToSend
MaxFlush == 4

\* the argument of byteOut.send: outBuffer[totalSent:pNumBytesToSend]
Offered_FromStart(buf, totalSent, pNumBytesToSend) ==
    OutBytes(buf, pNumBytesToSend)

Offered(buf, totalSent, pNumBytesToSend) ==
    Drop(OutBytes(buf, pNumBytesToSend), totalSent)

\* the test that raises SocketBroken
SendFailed_Never(sent) ==
    FALSE

SendFailed(sent) ==
    sent = 0

\* the while test, made before the first send and after every send
LoopResult(totalSent, pNumBytesToSend) ==
    IF totalSent < pNumBytesToSend THEN "running" ELSE "true"

\* sendOutBuffer is entered: totalSent = 0 and the first while test
FlushStart ==
    /\ call.op = "none"
    /\ \E b \in ValidPackets, n \in 0..MaxFlush :
        /\ outBuffer' = Trim(b)
        /\ call' = [op |-> "sendOutBuffer", n |-> n, totalSent |-> 0, sends |-> 0,
                    last |-> 0, accepted |-> <<>>, result |-> LoopResult(0, n)]
    /\ UNCHANGED <<connected, receiveBuf, pt, inBuffer, crashed, pending, sock,
                   peerClosed, plan, planKind, plansLeft, epoch, ringEpoch, pktBytes,
                   pktEpochs, lastDone, track, obs, enc>>

\* one pass of the loop: byteOut.send accepts sent of the bytes offered
FlushSend ==
    /\ call.op = "sendOutBuffer"
    /\ call.result = "running"
    /\ \E sent \in 0..Len(Offered(outBuffer, call.totalSent, call.n)) :
        call' = [call EXCEPT
                    !.sends = @ + 1,
                    !.last = sent,
                    !.accepted = @ \o Take(Offered(outBuffer, call.totalSent, call.n), sent),
                    !.totalSent = IF SendFailed(sent) THEN @ ELSE @ + sent,
                    !.result = IF SendFailed(sent) THEN "SocketBroken"
                               ELSE LoopResult(call.totalSent + sent, call.n)]
    /\ UNCHANGED <<connected, receiveBuf, pt, inBuffer, outBuffer, crashed, pending,
                   sock, peerClosed, plan, planKind, plansLeft, epoch, ringEpoch,
                   pktBytes, pktEpochs, lastDone, track, obs, enc>>

FlushNext ==
    \/ FlushStart
    \/ FlushSend

\* the loop is not held up between two sends
SpecFlush == FramerInit /\ [][FlushNext]_vars /\ WF_vars(FlushSend)

\* every send so far accepted at least one byte
AllAccepted ==
    call.op = "sendOutBuffer" /\ call.result # "SocketBroken"

\* sendOutBuffer has returned or raised
FlushEnded ==
    call.op = "sendOutBuffer" /\ call.result # "running"

\* C15: while every send call accepts at least one byte, the bytes accepted by
\* the socket, in call order, are outBuffer[0..totalSent-1] with totalSent <= n:
\* no byte repeated, skipped or sent beyond n; sendOutBuffer(n) ends after at
\* most n sends, and when it returns true the socket has accepted exactly
\* outBuffer[0..n-1].
C15_FlushExact ==
    /\ [](AllAccepted =>
            /\ call.totalSent <= call.n
            /\ call.sends <= call.totalSent
            /\ call.accepted = OutBytes(outBuffer, call.totalSent)
            /\ call.result = "true" => call.accepted = OutBytes(outBuffer, call.n))
    /\ (call.op = "sendOutBuffer") ~> FlushEnded

\* a packet went out in more than one partial write
C15_Witness ==
    /\ call.op = "sendOutBuffer"
    /\ call.result = "true"
    /\ call.n = MaxFlush
    /\ call.sends > 1
    /\ call.sends < call.n

\* C16: sendOutBuffer raises SocketBroken exactly when a send call accepted no
\* byte while bytes remained to be sent; it returns true only when n bytes were
\* accepted; with n = 0 it returns true without calling send.
C16_FlushFailure ==
    call.op = "sendOutBuffer" =>
        /\ (call.result = "SocketBroken") <=>
                (call.sends > 0 /\ call.last = 0 /\ call.totalSent < call.n)
        /\ call.result = "true" => Len(call.accepted) = call.n
        /\ call.n = 0 => (call.result = "true" /\ call.sends = 0)

\* a send accepted nothing after an earlier one had accepted a part
C16_Witness ==
    /\ call.op = "sendOutBuffer"
    /\ call.result = "SocketBroken"
    /\ call.sends > 1
    /\ call.totalSent > 0

-----------------------------------------------------------------------------
(* The payload decoders.  inBuffer is an array of signed ints that holds   *)
(* the bytes, 0..255 each, that checkForPacketReady copied from the ring   *)
(* buffer.                                                                 *)

\* PacketStatusEnum members named by the sources
PACKET_VALID == "PACKET_VALID"
DUPLEX_MATCH_ERROR == "DUPLEX_MATCH_ERROR"

RECURSIVE BitAnd(_, _)
\* a & b for an int a and b >= 0, bit by bit (two's complement for a < 0)
BitAnd(a, b) ==
    IF b = 0 THEN 0 ELSE (a % 2) * (b % 2) + 2 * BitAnd(a \div 2, b \div 2)

\* a sign extension that keeps the low pBits bits as an unsigned value
signExtend_Unsigned(pValue, pBits) ==
    BitAnd(pValue, Pow2(pBits) - 1)

\* signBit = 1 << (pBits - 1); mask = signBit - 1
signExtend(pValue, pBits) ==
    BitAnd(pValue, Pow2(pBits - 1) - 1) - BitAnd(pValue, Pow2(pBits - 1))

\* a decoder that returns the byte as it lies in inBuffer
parseUnsignedByteFromPacket_Raw(buf, pIndex) ==
    [status |-> PACKET_VALID, index |-> pIndex + 1, value |-> At(buf, pIndex)]

\* returns status, pIndex, value
parseUnsignedByteFromPacket(buf, pIndex) ==
    [status |-> PACKET_VALID, index |-> pIndex + 1,
     value |-> signExtend(At(buf, pIndex), 8)]

\* a decoder that leaves the two bytes as an unsigned 16-bit value
DuplexHalf_NoExtend(msb, lsb) ==
    BitAnd(msb * 256, 65280) + BitAnd(lsb, 255)

\* ((msb << 8) & 0xff00) + (lsb & 0xff), sign-extended over 16 bits
DuplexHalf(msb, lsb) ==
    signExtend(BitAnd(msb * 256, 65280) + BitAnd(lsb, 255), 16)

\* a decoder that does not compare the value with its copy
parseDuplexIntegerFromPacket_NoCompare(buf, pIndex) ==
    [status |-> PACKET_VALID, index |-> pIndex + 4,
     value |-> DuplexHalf(At(buf, pIndex), At(buf, pIndex + 1))]

\* returns status, pIndex, value
parseDuplexIntegerFromPacket(buf, pIndex) ==
    [status |-> IF DuplexHalf(At(buf, pIndex), At(buf, pIndex + 1))
                    = DuplexHalf(At(buf, pIndex + 2), At(buf, pIndex + 3))
                THEN PACKET_VALID ELSE DUPLEX_MATCH_ERROR,
     index |-> pIndex + 4,
     value |-> DuplexHalf(At(buf, pIndex), At(buf, pIndex + 1))]

-----------------------------------------------------------------------------
(* SpecDecode: a packet payload is put into inBuffer at some index and one *)
(* of the decoders is called on it.  call keeps the index, the bytes and   *)
(* what the decoder returned.                                              *)

\* the byte values tried in each of the four places of a duplex integer
DuplexBytes == {0, 1, 127, 128, 255}

\* where in inBuffer the value lies: at the start, after one byte, at the end
DecodeIndexes == {0, 1, IN_BUFFER_SIZE - 3}

DecodeInputs ==
    {<<b>> : b \in 0..255}
        \cup {<<a, b, c, d>> : a \in DuplexBytes, b \in DuplexBytes,
                               c \in DuplexBytes, d \in DuplexBytes}

\* buf with bytes stored from index i on
PutAll(buf, i, bytes) ==
    Trim([k \in 1..(IF Len(buf) > i + Len(bytes) THEN Len(buf) ELSE i + Len(bytes)) |->
            IF k > i /\ k <= i + Len(bytes) THEN bytes[k - i] ELSE At(buf, k - 1)])

\* a payload arrives in inBuffer
DecodeLoad ==
    /\ call.op = "none"
    /\ \E i \in DecodeIndexes, bytes \in DecodeInputs :
        /\ inBuffer' = PutAll(inBuffer, i, bytes)
        /\ call' = [op |-> "load", n |-> 0, i |-> i, bytes |-> bytes]
    /\ UNCHANGED <<connected, receiveBuf, pt, outBuffer, crashed, pending, sock,
                   peerClosed, plan, planKind, plansLeft, epoch, ringEpoch, pktBytes,
                   pktEpochs, lastDone, track, obs, enc>>

\* parseUnsignedByteFromPacket(i)
ParseByte ==
    /\ call.op = "load"
    /\ \E r \in {parseUnsignedByteFromPacket(inBuffer, call.i)} :
        call' = [op |-> "parseUnsignedByteFromPacket", n |-> 0, i |-> call.i,
                 bytes |-> call.bytes, status |-> r.status, index |-> r.index,
                 value |-> r.value]
    /\ UNCHANGED <<connected, receiveBuf, pt, inBuffer, outBuffer, crashed, pending,
                   sock, peerClosed, plan, planKind, plansLeft, epoch, ringEpoch,
                   pktBytes, pktEpochs, lastDone, track, obs, enc>>

\* parseDuplexIntegerFromPacket(i)
ParseDuplex ==
    /\ call.op = "load"
    /\ Len(call.bytes) = 4
    /\ \E r \in {parseDuplexIntegerFromPacket(inBuffer, call.i)} :
        call' = [op |-> "parseDuplexIntegerFromPacket", n |-> 0, i |-> call.i,
                 bytes |-> call.bytes, status |-> r.status, index |-> r.index,
                 value |-> r.value]
    /\ UNCHANGED <<connected, receiveBuf, pt, inBuffer, outBuffer, crashed, pending,
                   sock, peerClosed, plan, planKind, plansLeft, epoch, ringEpoch,
                   pktBytes, pktEpochs, lastDone, track, obs, enc>>

DecodeNext ==
    \/ DecodeLoad
    \/ ParseByte
    \/ ParseDuplex

SpecDecode == FramerInit /\ [][DecodeNext]_vars

\* two bytes read big-endian as a 16-bit two's complement number
SignedBigEndian(msb, lsb) ==
    IF msb * 256 + lsb < 32768 THEN msb * 256 + lsb ELSE msb * 256 + lsb - 65536

\* C17: parseDuplexIntegerFromPacket(i) returns index i + 4 in all cases, the
\* value of the first two bytes read big-endian and sign-extended over 16 bits,
\* and PACKET_VALID if the last two bytes decode to the same value, otherwise
\* DUPLEX_MATCH_ERROR.
C17_DuplexDecode ==
    call.op = "parseDuplexIntegerFromPacket" =>
        /\ call.index = call.i + 4
        /\ call.value = SignedBigEndian(call.bytes[1], call.bytes[2])
        /\ call.status =
             IF SignedBigEndian(call.bytes[3], call.bytes[4]) = call.value
             THEN PACKET_VALID ELSE DUPLEX_MATCH_ERROR

\* a negative value whose copy differs was decoded at the end of inBuffer
C17_Witness ==
    /\ call.op = "parseDuplexIntegerFromPacket"
    /\ call.value < 0
    /\ call.status = DUPLEX_MATCH_ERROR
    /\ call.bytes[1] = call.bytes[3]
    /\ call.i = IN_BUFFER_SIZE - 3

C19_ByteUnsigned ==
    call.op = "parseUnsignedByteFromPacket" =>
        /\ call.value = call.bytes[1]
        /\ call.value \in 0..255

-----------------------------------------------------------------------------
(* SpecSignExtend: signExtend(pValue, pBits) called with every width from  *)
(* 1 to MaxSignBits and every value of that width, alone and with bits set *)
(* above the width.                                                        *)

\* the largest pBits
MaxSignBits == 16

\* what is put above the low pBits bits of pValue
HighBits == {0, 5}

\* PacketTool.signExtend(pValue, pBits)
SignExtendCall ==
    /\ call.op = "none"
    /\ \E pBits \in 1..MaxSignBits :
       \E low \in 0..(Pow2(pBits) - 1), high \in HighBits :
        call' = [op |-> "signExtend", n |-> 0, pBits |-> pBits, low |-> low,
                 pValue |-> low + high * Pow2(pBits),
                 value |-> signExtend(low + high * Pow2(pBits), pBits)]
    /\ UNCHANGED <<connected, receiveBuf, pt, inBuffer, outBuffer, crashed, pending,
                   sock, peerClosed, plan, planKind, plansLeft, epoch, ringEpoch,
                   pktBytes, pktEpochs, lastDone, track, obs, enc>>

SignExtendNext ==
    SignExtendCall

SpecSignExtend == FramerInit /\ [][SignExtendNext]_vars

\* C20: signExtend(v, bits) takes bit (bits - 1) of v as the sign bit: for v in
\* 0..2^bits - 1 the result is v when v < 2^(bits-1) and v - 2^bits otherwise;
\* bits of v above position bits - 1 do not change the result, which always
\* lies in [-2^(bits-1), 2^(bits-1) - 1].
C20_SignExtend ==
    call.op = "signExtend" =>
        /\ call.value = IF call.low < Pow2(call.pBits - 1) THEN call.low
                        ELSE call.low - Pow2(call.pBits)
        /\ call.value >= 0 - Pow2(call.pBits - 1)
        /\ call.value <= Pow2(call.pBits - 1) - 1

\* the most negative 16-bit value was produced from a value with bits set above bit 15
C20_Witness ==
    /\ call.op = "signExtend"
    /\ call.pBits = 16
    /\ call.pValue > 65535
    /\ call.value = 0 - 32768

-----------------------------------------------------------------------------
(* Claims about whole packets and about the running program *)

\* C21: a PacketTool with device identifier 0 that sends the text "Hello" to
\* destination 1 with packet type code 5 hands the transport exactly the 14
\* bytes AA 55 01 00 05 00 06 48 65 6C 6C 6F 00 01.
C21_HelloPacket ==
    (/\ call.op = "sendString"
     /\ call.from = 0
     /\ call.data = <<72, 101, 108, 108, 111>>) =>
        /\ call.raised = "none"
        /\ call.handed = <<170, 85, 1, 0, 5, 0, 6, 72, 101, 108, 108, 111, 0, 1>>

\* "Hello" was sent by device 0 out of a buffer that held a longer packet before
C21_Witness ==
    /\ call.op = "sendString"
    /\ call.from = 0
    /\ call.data = <<72, 101, 108, 108, 111>>
    /\ Len(call.handed) = 14
    /\ Len(call.before) > 14


\* C22: a connection is accepted only in a call that finds connected false,
\* with the ring buffer empty and the PacketTool reset by the disconnect before;
\* a request that arrives while a connection is active waits; and every byte in
\* the ring buffer was received on the current connection, so that bytes of two
\* connections are never interleaved in it.
C22_OneConnection ==
    /\ [](/\ Len(ringEpoch) = Len(receiveBuf)
          /\ \A i \in 1..Len(ringEpoch) : ringEpoch[i] = epoch
          /\ obs.accepted => (connected /\ receiveBuf = <<>>))
    /\ [][epoch' # epoch =>
            /\ ~connected
            /\ pending
            /\ receiveBuf = <<>>
            /\ PacketToolIsReset
            /\ connected'
            /\ ~pending'
            /\ epoch' = epoch + 1]_vars
    /\ [][(connected /\ connected') => (epoch' = epoch /\ (pending => pending'))]_vars

\* a second request is waiting while doRunTimeTasks, with the first connection
\* active, reads bytes of the first connection and reports a packet ready
C22_Witness ==
    /\ connected
    /\ pending
    /\ epoch = 1
    /\ obs.polled
    /\ obs.ret = "true"
    /\ obs.got > 0
    /\ ~obs.accepted

-----------------------------------------------------------------------------
(* SpecHandData: ControllerHandler.sendHandDataToHost called again and     *)
(* again while time.perf_counter() goes on, with no hand or one hand in    *)
(* the picture and a socket that takes every packet.  Time is counted in   *)
(* tenths of a second.  call keeps the clock reading of the last call, the *)
(* send timer, what the call handed to the socket and when a packet was    *)
(* last sent.                                                              *)

\* 0.3 seconds
HAND_DATA_SEND_TIMER_PERIOD == 3

\* the last clock reading
MaxClock == 8

\* prepareHandDataForHost: no tuple for an empty pHands; for a hand, its tuples
HandLists ==
    {<<>>} \cup HandsInputs

\* a timer test that lets every call send
HandDataDue_Always(nowTime, handDataSendTimerEnd) ==
    TRUE

\* if nowTime < self.handDataSendTimerEnd: return
HandDataDue(nowTime, handDataSendTimerEnd) ==
    ~(nowTime < handDataSendTimerEnd)

\* self.handDataSendTimerEnd after the call
TimerAfter(nowTime, handDataSendTimerEnd) ==
    IF HandDataDue(nowTime, handDataSendTimerEnd)
    THEN nowTime + HAND_DATA_SEND_TIMER_PERIOD
    ELSE handDataSendTimerEnd

\* the state of the controller before its first call: handDataSendTimerEnd = 0
NoHandCall ==
    [op |-> "sendHandDataToHost", n |-> 0, now |-> 0, timerEnd |-> 0, before |-> 0,
     hands |-> <<>>, sent |-> <<>>, last |-> 0 - 1, previous |-> 0 - 1,
     skipped |-> FALSE, afterSkip |-> FALSE]

HandState ==
    IF call.op = "sendHandDataToHost" THEN call ELSE NoHandCall

\* one call of sendHandDataToHost at clock reading nowTime
HandCall ==
    \E nowTime \in HandState.now..MaxClock, handsData \in HandLists :
    \E r \in {sendHandDataToHost(outBuffer, HandDataDue(nowTime, HandState.timerEnd),
                                 handsData, "none")} :
        /\ outBuffer' = r.buf
        /\ call' = [op |-> "sendHandDataToHost", n |-> 0, now |-> nowTime,
                    timerEnd |-> TimerAfter(nowTime, HandState.timerEnd),
                    before |-> HandState.timerEnd,
                    hands |-> handsData,
                    sent |-> r.sent,
                    last |-> IF r.sent # <<>> THEN nowTime ELSE HandState.last,
                    previous |-> HandState.last,
                    skipped |-> (r.sent = <<>>),
                    afterSkip |-> HandState.skipped]
        /\ UNCHANGED <<connected, receiveBuf, pt, inBuffer, crashed, pending, sock,
                       peerClosed, plan, planKind, plansLeft, epoch, ringEpoch,
                       pktBytes, pktEpochs, lastDone, track, obs, enc>>

HandNext ==
    HandCall

SpecHandData == FramerInit /\ [][HandNext]_vars

\* C23: when sendHandDataToHost is called with an empty list of hands, no byte
\* is written to the socket.
C23_NoHandsNothingSent ==
    (call.op = "sendHandDataToHost" /\ call.hands = <<>>) => call.sent = <<>>

\* C24: sendHandDataToHost sends only if HAND_DATA_SEND_TIMER_PERIOD has passed
\* since the previous hand-data transmission: with non-decreasing clock
\* readings two HAND_GESTURE_DATA packets are never sent less than the period
\* apart, and a call made before the period has elapsed sends nothing and
\* leaves the timer where it was.
C24_RateLimit ==
    call.op = "sendHandDataToHost" =>
        /\ (call.sent # <<>> /\ call.previous >= 0) =>
                call.now - call.previous >= HAND_DATA_SEND_TIMER_PERIOD
        /\ (call.previous >= 0
            /\ call.now - call.previous < HAND_DATA_SEND_TIMER_PERIOD) =>
                (call.sent = <<>> /\ call.timerEnd = call.before)
        /\ call.sent # <<>> => call.timerEnd = call.now + HAND_DATA_SEND_TIMER_PERIOD
        /\ Len(call.sent) <= 1

\* a call made before the period had elapsed sent nothing, and the next call,
\* just one period after the last packet, sent one
C24_Witness ==
    /\ call.op = "sendHandDataToHost"
    /\ call.sent # <<>>
    /\ call.hands # <<>>
    /\ call.afterSkip
    /\ call.previous >= 0
    /\ call.now - call.previous = HAND_DATA_SEND_TIMER_PERIOD

-----------------------------------------------------------------------------
(* The ring buffer on its own: the operations the program performs on      *)
(* EthernetLink.receiveBuf, in any order.  The k-th byte offered has the   *)
(* value k, so that the order of the bytes can be read off the buffer.     *)

MaxRingAppends == 52
MaxRingTakes == 3
BlockLengths == {2, 5}

NoRingCall ==
    [op |-> "ring", n |-> 0, takes |-> 0, last |-> "none", before |-> <<>>,
     got |-> <<>>, accepted |-> <<>>, taken |-> <<>>, dropped |-> 0]

\* everything but the ring buffer, the block-read destination and the history
ringFrame ==
    <<connected, pt, outBuffer, crashed, pending, sock, peerClosed, plan, planKind,
      plansLeft, epoch, ringEpoch, pktBytes, pktEpochs, lastDone, track, obs, enc>>

RingHistory ==
    IF call.op = "ring" THEN call ELSE NoRingCall

\* handleReceive: self.receiveBuf.append(int.from_bytes(data, byteorder='big'))
RingAppend ==
    /\ RingHistory.n < MaxRingAppends
    /\ receiveBuf' = CB_append(receiveBuf, RingHistory.n + 1)
    /\ call' = [RingHistory EXCEPT
                    !.n = @ + 1, !.last = "append", !.before = receiveBuf,
                    !.got = <<RingHistory.n + 1>>,
                    !.accepted = IF CB_available(receiveBuf) < RECEIVE_BUFFER_SIZE
                                 THEN Append(@, RingHistory.n + 1) ELSE @,
                    !.dropped = IF CB_available(receiveBuf) < RECEIVE_BUFFER_SIZE
                                THEN @ ELSE @ + 1]
    /\ UNCHANGED <<inBuffer, ringFrame>>

\* checkForPacketHeaderAvailable: self.byteIn.retrieve(), with bytes available
RingRetrieve ==
    /\ RingHistory.takes < MaxRingTakes
    /\ CB_available(receiveBuf) > 0
    /\ receiveBuf' = CB_retrieve(receiveBuf).b
    /\ call' = [RingHistory EXCEPT
                    !.takes = @ + 1, !.last = "retrieve", !.before = receiveBuf,
                    !.got = <<CB_retrieve(receiveBuf).v>>,
                    !.taken = Append(@, CB_retrieve(receiveBuf).v)]
    /\ UNCHANGED <<inBuffer, ringFrame>>

\* peekForValue: self.byteIn.peek(), with bytes available
RingPeek ==
    /\ CB_available(receiveBuf) > 0
    /\ call' = [RingHistory EXCEPT
                    !.last = "peek", !.before = receiveBuf,
                    !.got = <<CB_peek(receiveBuf)>>]
    /\ UNCHANGED <<receiveBuf, inBuffer, ringFrame>>

\* checkForPacketReady: self.byteIn.read(self.inBuffer, 0, length), with at
\* least length bytes available
RingRead ==
    \E length \in BlockLengths :
        /\ RingHistory.takes < MaxRingTakes
        /\ CB_available(receiveBuf) >= length
        /\ inBuffer' = CB_read(receiveBuf, inBuffer, 0, length)
        /\ receiveBuf' = Drop(receiveBuf, length)
        /\ call' = [RingHistory EXCEPT
                        !.takes = @ + 1, !.last = "read", !.before = receiveBuf,
                        !.got = Take(CB_read(receiveBuf, inBuffer, 0, length), length),
                        !.taken = @ \o Take(CB_read(receiveBuf, inBuffer, 0, length), length)]
        /\ UNCHANGED ringFrame

\* EthernetLink.disconnect: self.receiveBuf.reset()
RingReset ==
    /\ RingHistory.takes < MaxRingTakes
    /\ receiveBuf' = CB_reset(receiveBuf)
    /\ call' = [RingHistory EXCEPT
                    !.takes = @ + 1, !.last = "reset", !.before = receiveBuf,
                    !.got = <<>>, !.accepted = <<>>, !.taken = <<>>]
    /\ UNCHANGED <<inBuffer, ringFrame>>

RingNext ==
    \/ RingAppend
    \/ RingRetrieve
    \/ RingPeek
    \/ RingRead
    \/ RingReset

SpecRing ==
    FramerInit /\ [][RingNext]_vars

-----------------------------------------------------------------------------
(* EthernetLink.handleReceive step by step: one select, then one recv(1),   *)
(* one append and one more select per turn of the loop, while the remote    *)
(* device may send or close at any moment, also between two turns.          *)

\* bytes the socket holds ready at one moment
MaxSockReady == 2
PeerBytes == {65}

NoReceiveCall ==
    [op |-> "handleReceive", n |-> 0, pc |-> "idle", waited |-> FALSE]

ReceiveHistory ==
    IF call.op = "handleReceive" THEN call ELSE NoReceiveCall

receiveFrame ==
    <<pt, inBuffer, outBuffer, crashed, pending, plan, planKind, plansLeft, epoch,
      ringEpoch, pktBytes, pktEpochs, lastDone, track, obs, enc>>

\* select.select(inputs, outputs, errors, 0): the socket is readable when a
\* byte is ready or the remote device has closed
ReadReady(s, closed) ==
    s # <<>> \/ closed

\* connectToRemoteIfRequestPending has accepted a connection
RecvAccept ==
    /\ ~connected
    /\ ReceiveHistory.pc = "idle"
    /\ connected' = TRUE
    /\ call' = ReceiveHistory
    /\ UNCHANGED <<receiveBuf, sock, peerClosed, receiveFrame>>

\* the remote device sends one more byte
RecvPeerSend ==
    /\ connected
    /\ ~peerClosed
    /\ Len(sock) < MaxSockReady
    /\ \E b \in PeerBytes : sock' = Append(sock, b)
    /\ call' = ReceiveHistory
    /\ UNCHANGED <<connected, receiveBuf, peerClosed, receiveFrame>>

\* the remote device closes the connection
RecvPeerClose ==
    /\ connected
    /\ ~peerClosed
    /\ peerClosed' = TRUE
    /\ call' = ReceiveHistory
    /\ UNCHANGED <<connected, receiveBuf, sock, receiveFrame>>

\* handleReceive up to the first test of the loop; inError ends the call
RecvCall ==
    /\ connected
    /\ ReceiveHistory.pc \in {"idle", "returned"}
    /\ \E inError \in BOOLEAN :
        call' = [ReceiveHistory EXCEPT
                    !.n = 0,
                    !.pc = IF ~inError /\ ReadReady(sock, peerClosed)
                           THEN "loop" ELSE "returned"]
    /\ UNCHANGED <<connected, receiveBuf, sock, peerClosed, receiveFrame>>

\* one turn of the loop: recv(1), the test for b'', append, select
RecvStep ==
    /\ ReceiveHistory.pc = "loop"
    /\ IF sock = <<>>
       THEN /\ call' = [ReceiveHistory EXCEPT
                            !.pc = "SocketBroken",
                            !.waited = @ \/ ~ReadReady(sock, peerClosed)]
            /\ UNCHANGED <<receiveBuf, sock>>
       ELSE /\ receiveBuf' = CB_append(receiveBuf, Head(sock))
            /\ sock' = Tail(sock)
            /\ call' = [ReceiveHistory EXCEPT
                            !.n = IF @ < RECEIVE_BUFFER_SIZE THEN @ + 1 ELSE @,
                            !.pc = IF ReadReady(Tail(sock), peerClosed)
                                   THEN "loop" ELSE "returned"]
    /\ UNCHANGED <<connected, peerClosed, receiveFrame>>

ReceiveNext ==
    \/ RecvAccept
    \/ RecvPeerSend
    \/ RecvPeerClose
    \/ RecvCall
    \/ RecvStep

\* the interpreter keeps executing a call that has begun
SpecReceive ==
    FramerInit /\ [][ReceiveNext]_vars /\ WF_vars(RecvStep)

\* C26: every call of handleReceive returns (or raises) after finitely many
\* socket reads, also while the remote device keeps sending during the call,
\* and no recv is made on a socket that select has not reported readable
C26_PollReturns ==
    /\ [](call.op = "handleReceive" => ~call.waited)
    /\ (call.op = "handleReceive" /\ call.pc = "loop")
            ~> (call.op = "handleReceive" /\ call.pc # "loop")

-----------------------------------------------------------------------------
(* ControllerHandler: the digit states inferred from the landmarks of a     *)
(* hand.  A hand is given by the coordinates the code reads: the x of       *)
(* landmarks 5 and 20, the tip and the abutting joint of the thumb, and for *)
(* each finger the y of its tip, of the joint next to the tip and of the    *)
(* joint next to the base (smaller y is higher on the screen).  The angle   *)
(* calculateAngleOfLineInDegrees returns is an input.                       *)

MAX_SHORT_INT == 32767
UNKNOWN_DIGIT_POSITION == MAX_SHORT_INT
DIGIT_RETRACTED == MAX_SHORT_INT - 1
DIGIT_EXTENDED_UP == 0
DIGIT_EXTENDED_SIDE == 90
UPWARDS == 0
SIDEWAYS == 1
LEFT_HAND == 0
RIGHT_HAND == 1

\* inferDirectionOfHand, from the angle of the line between the base joints
inferDirectionOfHand(handAngle) ==
    IF 45 < handAngle /\ handAngle < 135 THEN SIDEWAYS ELSE UPWARDS

\* translateLandmarksToThumbPosition: the value left in thumb_state
translateLandmarksToThumbPosition(hand, handedness, pHandDirection) ==
    IF handedness = LEFT_HAND
    THEN IF pHandDirection = UPWARDS
         THEN IF hand.thumbTipX < hand.thumbTipAbutX
              THEN DIGIT_EXTENDED_SIDE ELSE DIGIT_RETRACTED
         ELSE IF hand.thumbTipY < hand.thumbTipAbutY
              THEN DIGIT_EXTENDED_UP ELSE DIGIT_RETRACTED
    ELSE IF pHandDirection = UPWARDS
         THEN IF hand.thumbTipX > hand.thumbTipAbutX
              THEN DIGIT_EXTENDED_SIDE ELSE DIGIT_RETRACTED
         ELSE IF hand.thumbTipY < hand.thumbTipAbutY
              THEN DIGIT_EXTENDED_UP ELSE DIGIT_RETRACTED

\* one finger of translateLandmarksToDigitPositions: ys = <<tip, joint next
\* to the tip, joint next to the base>>
FingerFromLandmarks(ys) ==
    IF ys[1] < ys[2] /\ ys[2] < ys[3] THEN DIGIT_EXTENDED_UP
    ELSE IF ys[3] < ys[1] THEN DIGIT_RETRACTED
    ELSE UNKNOWN_DIGIT_POSITION

\* a translation without the last test: the fingers of a hand held sideways
\* keep what their landmarks show
translateLandmarksToDigitPositions_KeepsFingers(hand) ==
    [handedness |-> IF hand.x5 < hand.x20 THEN LEFT_HAND ELSE RIGHT_HAND,
     thumb_state |->
        translateLandmarksToThumbPosition(
            hand, IF hand.x5 < hand.x20 THEN LEFT_HAND ELSE RIGHT_HAND,
            inferDirectionOfHand(hand.handAngle)),
     index_state |-> FingerFromLandmarks(hand.index),
     middle_state |-> FingerFromLandmarks(hand.middle),
     ring_state |-> FingerFromLandmarks(hand.ring),
     little_state |-> FingerFromLandmarks(hand.little)]

\* translateLandmarksToDigitPositions: the fields it leaves in the hand
translateLandmarksToDigitPositions(hand) ==
    [handedness |-> IF hand.x5 < hand.x20 THEN LEFT_HAND ELSE RIGHT_HAND,
     thumb_state |->
        translateLandmarksToThumbPosition(
            hand, IF hand.x5 < hand.x20 THEN LEFT_HAND ELSE RIGHT_HAND,
            inferDirectionOfHand(hand.handAngle)),
     index_state |-> IF inferDirectionOfHand(hand.handAngle) = SIDEWAYS
                     THEN DIGIT_RETRACTED ELSE FingerFromLandmarks(hand.index),
     middle_state |-> IF inferDirectionOfHand(hand.handAngle) = SIDEWAYS
                      THEN DIGIT_RETRACTED ELSE FingerFromLandmarks(hand.middle),
     ring_state |-> IF inferDirectionOfHand(hand.handAngle) = SIDEWAYS
                    THEN DIGIT_RETRACTED ELSE FingerFromLandmarks(hand.ring),
     little_state |-> IF inferDirectionOfHand(hand.handAngle) = SIDEWAYS
                      THEN DIGIT_RETRACTED ELSE FingerFromLandmarks(hand.little)]

\* inferFingerPositions: the translation of a finger's state, read as a
\* mediapipe code (0 retracted, 1 extended)
FingerAngle(state) ==
    IF state = 0 THEN DIGIT_RETRACTED
    ELSE IF state = 1 THEN 0
    ELSE UNKNOWN_DIGIT_POSITION

\* the same for the thumb
ThumbAngle(state) ==
    IF state = 0 THEN DIGIT_RETRACTED
    ELSE IF state = 1 THEN 90
    ELSE UNKNOWN_DIGIT_POSITION

inferFingerPositions(hand) ==
    [handedness |-> translateLandmarksToDigitPositions(hand).handedness,
     thumb_state |-> ThumbAngle(translateLandmarksToDigitPositions(hand).thumb_state),
     index_state |-> FingerAngle(translateLandmarksToDigitPositions(hand).index_state),
     middle_state |-> FingerAngle(translateLandmarksToDigitPositions(hand).middle_state),
     ring_state |-> FingerAngle(translateLandmarksToDigitPositions(hand).ring_state),
     little_state |-> FingerAngle(translateLandmarksToDigitPositions(hand).little_state)]

\* a finger straight up, a finger folded, and three positions of the joints
\* that are neither
FingerShapes ==
    {<<0, 1, 2>>, <<2, 1, 0>>, <<1, 1, 1>>, <<0, 2, 1>>, <<1, 0, 2>>}

HandAngles == {0, 45, 90, 135}

HandLandmarks ==
    [x5 : {0, 1}, x20 : {1}, thumbTipX : {0, 1}, thumbTipAbutX : {1},
     thumbTipY : {0, 1}, thumbTipAbutY : {1}, handAngle : HandAngles,
     index : FingerShapes, middle : FingerShapes, ring : FingerShapes,
     little : FingerShapes]

fingersFrame ==
    <<connected, receiveBuf, pt, inBuffer, outBuffer, crashed, pending, sock,
      peerClosed, plan, planKind, plansLeft, epoch, ringEpoch, pktBytes, pktEpochs,
      lastDone, track, obs, enc>>

\* one call of inferFingerPositions on a hand the tracker has found
InferCall ==
    /\ call.op = "none"
    /\ \E hand \in HandLandmarks :
        call' = [op |-> "inferFingerPositions", n |-> 0, hand |-> hand,
                 digits |-> translateLandmarksToDigitPositions(hand),
                 out |-> inferFingerPositions(hand)]
    /\ UNCHANGED fingersFrame

FingersNext ==
    InferCall

SpecFingers ==
    FramerInit /\ [][FingersNext]_vars

\* what the landmarks of a finger show: the tip above the joint next to it and
\* that joint above the joint next to the base is a finger straight up; the
\* tip below the joint next to the base is a finger folded
ShowsExtendedUp(ys) ==
    ys[1] < ys[2] /\ ys[2] < ys[3]

ShowsRetracted(ys) ==
    ~ShowsExtendedUp(ys) /\ ys[3] < ys[1]

DocumentedCode(ys) ==
    IF ShowsExtendedUp(ys) THEN 0
    ELSE IF ShowsRetracted(ys) THEN 32766
    ELSE 32767

\* C27: after inferFingerPositions on a hand held upwards, each of index,
\* middle, ring and little state is 0 when the landmarks show the finger
\* extended straight up, 32766 when they show it retracted and 32767 when its
\* state cannot be inferred
C27_DigitEncoding ==
    (call.op = "inferFingerPositions"
        /\ inferDirectionOfHand(call.hand.handAngle) = UPWARDS) =>
        /\ call.out.index_state = DocumentedCode(call.hand.index)
        /\ call.out.middle_state = DocumentedCode(call.hand.middle)
        /\ call.out.ring_state = DocumentedCode(call.hand.ring)
        /\ call.out.little_state = DocumentedCode(call.hand.little)

-----------------------------------------------------------------------------
(* Claims about the sync search and about polls with too few bytes,        *)
(* checked under SpecFramer                                                *)

\* C28: 0xaa followed by a byte other than 0x55, here the 0xaa of a valid
\* packet for this device: the header attempt discards the first 0xaa only and
\* counts one resync, the search restarts at the byte that followed it, and the
\* packet is reported ready with its type and payload
C28_BadSecondSync ==
    planKind = "aasync" /\ track.clean /\ track.polled =>
        LET L == Len(track.full)
            pkt == Tail(track.full)
        IN
        /\ track.taken \in {0, 1, 8, L}
        /\ track.taken > 0 => pt.resyncCount = 1
        /\ track.reported = (IF track.taken = L THEN 1 ELSE 0)
        /\ obs.ret = "true" =>
                /\ pt.pktType = pkt[5]
                /\ pt.numPktDataBytes = Len(pkt) - 8
                /\ \A i \in 1..(Len(pkt) - 8) : At(inBuffer, i - 1) = pkt[7 + i]
        /\ (track.fed = L /\ track.sincePoll = 0 /\ obs.consumed = <<>>) =>
                track.reported = 1


\* C29: a poll with too few bytes changes nothing.  A call of
\* checkForPacketReady made without a valid header and with fewer than 7 bytes
\* buffered, or with a valid header and fewer than payload length + 1 bytes
\* buffered, returns false, consumes no byte and leaves every field of the
\* PacketTool (headerValid, the header fields, the checksum accumulator,
\* resyncCount) and inBuffer as they were; a call made with a valid header and
\* enough bytes consumes exactly payload length + 1 bytes
C29_ShortPollNoChange ==
    [][FPoll =>
        /\ ((~pt.headerValid /\ CB_available(receiveBuf) < 7)
              \/ (pt.headerValid /\ CB_available(receiveBuf) < pt.numPktDataBytes + 1)) =>
                /\ obs'.ret = "false"
                /\ obs'.raised = "none"
                /\ receiveBuf' = receiveBuf
                /\ pt' = pt
                /\ inBuffer' = inBuffer
        /\ (pt.headerValid /\ CB_available(receiveBuf) >= pt.numPktDataBytes + 1) =>
                /\ receiveBuf' = Drop(receiveBuf, pt.numPktDataBytes + 1)
                /\ ~pt'.headerValid
      ]_vars

\* a poll has just found a header waiting for its payload and checksum, with
\* some but not all of those bytes buffered, after an earlier packet was reported
C29_Witness ==
    /\ JustPolled
    /\ pt.headerValid
    /\ obs.consumed = <<>>
    /\ obs.ret = "false"
    /\ receiveBuf # <<>>
    /\ pt.numPktDataBytes = 2
    /\ track.reported >= 1


\* C30: resyncCount counts resync invocations, not bytes.  A call of
\* checkForPacketReady that has to discard bytes while looking for the sync
\* sequence (it starts a header attempt, with 7 bytes or more buffered, on bytes
\* that do not begin with 0xaa 0x55) adds exactly 1 to resyncCount however many
\* bytes it discards; every other call leaves resyncCount unchanged; and where
\* there is no reset, resyncCount never decreases
C30_ResyncCounted ==
    [][/\ pt'.resyncCount >= pt.resyncCount
       /\ FPoll =>
            IF /\ ~pt.headerValid
               /\ CB_available(receiveBuf) >= 7
               /\ ~(receiveBuf[1] = 170 /\ receiveBuf[2] = 85)
            THEN /\ pt'.resyncCount = pt.resyncCount + 1
                 /\ Len(receiveBuf') < Len(receiveBuf)
                 /\ ~pt'.headerValid
            ELSE pt'.resyncCount = pt.resyncCount
      ]_vars

\* one poll has discarded seven bytes or more, none of them 0xaa, and
\* resyncCount is 1
C30_Witness ==
    /\ JustPolled
    /\ Len(obs.consumed) >= 7
    /\ track.taken = Len(obs.consumed)
    /\ \A i \in 1..Len(obs.consumed) : obs.consumed[i] # 170
    /\ pt.resyncCount = 1
    /\ receiveBuf # <<>>


\* a header, the payload it declares and a checksum byte, addressed to this
\* device, whose bytes do not sum to 0 modulo 256
BadSumHere(b) ==
    /\ Len(b) >= 7
    /\ Len(b) = 8 + b[6] * 256 + b[7]
    /\ b[3] = ThisDeviceIdentifier
    /\ SumSeq(b) % 256 # 0

\* C31: a complete packet addressed to this device that fails the checksum is
\* handled without a byte search.  The call of checkForPacketReady that has its
\* payload and checksum byte buffered returns false, takes exactly payload
\* length + 1 bytes after the header, leaves resyncCount as it was and
\* headerValid false; the next header is parsed at the byte directly after the
\* packet, so a valid packet that follows is reported ready
C31_BadChecksumNoSearch ==
    /\ [][FPoll =>
            /\ (/\ pt.headerValid
                /\ pt.destDeviceIdentifierFromReceivedPkt = ThisDeviceIdentifier
                /\ CB_available(receiveBuf) >= pt.numPktDataBytes + 1
                /\ (pt.pktChecksum
                      + SumSeq(Take(receiveBuf, pt.numPktDataBytes + 1))) % 256 # 0) =>
                    /\ obs'.ret = "false"
                    /\ receiveBuf' = Drop(receiveBuf, pt.numPktDataBytes + 1)
                    /\ pt'.resyncCount = pt.resyncCount
                    /\ ~pt'.headerValid
            /\ (/\ ~pt.headerValid
                /\ CB_available(receiveBuf) >= 8
                /\ receiveBuf[1] = 170 /\ receiveBuf[2] = 85
                /\ receiveBuf[3] = ThisDeviceIdentifier
                /\ receiveBuf[5] \in PacketTypeCodes
                /\ CB_available(receiveBuf) >= 8 + receiveBuf[6] * 256 + receiveBuf[7]
                /\ BadSumHere(Take(receiveBuf, 8 + receiveBuf[6] * 256 + receiveBuf[7]))) =>
                    /\ obs'.ret = "false"
                    /\ receiveBuf' =
                          Drop(receiveBuf, 8 + receiveBuf[6] * 256 + receiveBuf[7])
                    /\ pt'.resyncCount = pt.resyncCount
                    /\ ~pt'.headerValid
       ]_vars
    /\ []((/\ obs.polled /\ obs.consumed # <<>>
           /\ BadSumHere(lastDone)
           /\ Len(pktBytes) >= 7 /\ Len(pktBytes) = 8 + pktBytes[6] * 256 + pktBytes[7]
           /\ pktBytes[3] = ThisDeviceIdentifier
           /\ SumSeq(pktBytes) % 256 = 0) =>
                obs.ret = "true" /\ pt.resyncCount = 0)

\* a packet with a wrong checksum byte was consumed, and the valid packet sent
\* directly after it has just been reported
C31_Witness ==
    /\ obs.polled /\ obs.consumed # <<>>
    /\ BadSumHere(lastDone)
    /\ lastDone \in BadChecksumPackets
    /\ Len(pktBytes) = 8 + pktBytes[6] * 256 + pktBytes[7]
    /\ SumSeq(pktBytes) % 256 = 0
    /\ obs.ret = "true"
    /\ pt.resyncCount = 0

-----------------------------------------------------------------------------
(* ControllerHandler.prepareHandDataForHost and the packet made of its      *)
(* result.  A hand of the tracker is [scoreAbove, rect_w_a, landmarks,      *)
(* handAngle]: whether lm_score exceeds the threshold, the width already    *)
(* rounded, the 21 landmarks as <<x, y>> (landmark i at index i + 1) and    *)
(* the angle calculateAngleOfLineInDegrees returns for it.                  *)

LEFT_HAND_INT == 0
RIGHT_HAND_INT == 1

MaxHands == 10

\* the coordinates translateLandmarksToDigitPositions reads
LandmarkFields(hand) ==
    [x5 |-> hand.landmarks[6][1], x20 |-> hand.landmarks[21][1],
     thumbTipX |-> hand.landmarks[5][1], thumbTipY |-> hand.landmarks[5][2],
     thumbTipAbutX |-> hand.landmarks[4][1], thumbTipAbutY |-> hand.landmarks[4][2],
     handAngle |-> hand.handAngle,
     index |-> <<hand.landmarks[9][2], hand.landmarks[8][2], hand.landmarks[7][2]>>,
     middle |-> <<hand.landmarks[13][2], hand.landmarks[12][2], hand.landmarks[11][2]>>,
     ring |-> <<hand.landmarks[17][2], hand.landmarks[16][2], hand.landmarks[15][2]>>,
     little |-> <<hand.landmarks[21][2], hand.landmarks[20][2], hand.landmarks[19][2]>>]

\* np.max(hand.landmarks[:, 1])
MaxY(landmarks) ==
    CHOOSE m \in {landmarks[i][2] : i \in 1..Len(landmarks)} :
        \A i \in 1..Len(landmarks) : landmarks[i][2] <= m

\* the tuples before the landmarks, d the hand after
\* translateLandmarksToDigitPositions
HandHeadTuples(hand, d) ==
    <<IF ~hand.scoreAbove THEN <<0, 0>> ELSE <<1, hand.rect_w_a>>,
      <<d.thumb_state, d.index_state>>,
      <<d.middle_state, d.ring_state>>,
      <<d.little_state,
        IF d.handedness = LEFT_HAND THEN LEFT_HAND_INT ELSE RIGHT_HAND_INT>>>>

\* mutant: the anchor point of the labels is left out
HandTuples_NoAnchor(hand) ==
    HandHeadTuples(hand, translateLandmarksToDigitPositions(LandmarkFields(hand)))
        \o hand.landmarks

\* one pass of the loop over the hands: the tuples appended for one hand
HandTuples(hand) ==
    HandHeadTuples(hand, translateLandmarksToDigitPositions(LandmarkFields(hand)))
        \o <<<<hand.landmarks[1][1], MaxY(hand.landmarks)>>>>
        \o hand.landmarks

RECURSIVE prepareHandDataForHost(_)
prepareHandDataForHost(pHands) ==
    IF pHands = <<>> THEN <<>>
    ELSE HandTuples(Head(pHands)) \o prepareHandDataForHost(Tail(pHands))

\* landmarks of three hands: fingers up, fingers folded, and a hand partly
\* left of the image (negative x)
HandShape(k) ==
    [i \in 1..21 |->
        IF k = 0 THEN <<100 + 10 * i, 400 - 15 * i>>
        ELSE IF k = 1 THEN <<300 - 10 * i, 100 + 15 * ((i * 7) % 5)>>
        ELSE <<20 * i - 50, 260 + ((i * 3) % 4) - 2 * i>>]

HandWidths == {187, 300}

\* n hands, the shapes taken in turn from shape s on
HandSeries(n, s, scoreAbove, width, angle) ==
    [i \in 1..n |->
        [scoreAbove |-> (scoreAbove /\ i % 2 = 1) \/ (~scoreAbove /\ i % 3 = 0),
         rect_w_a |-> width + i,
         landmarks |-> HandShape((i + s) % 3),
         handAngle |-> IF i % 2 = 0 THEN angle ELSE 0]]

\* sendHandDataToHost with the send timer run out, on the hands of one frame
PrepareCall ==
    /\ call.op = "none"
    /\ \E n \in 0..MaxHands, s \in 0..2, scoreAbove \in BOOLEAN, width \in HandWidths,
          angle \in HandAngles :
       \E pHands \in {HandSeries(n, s, scoreAbove, width, angle)} :
       \E r \in {sendHandDataToHost(outBuffer, TRUE, prepareHandDataForHost(pHands),
                                    "none")} :
        /\ outBuffer' = r.buf
        /\ call' = [op |-> "prepareHandDataForHost", n |-> 0, hands |-> pHands,
                    sent |-> r.sent, raised |-> r.raised]
    /\ UNCHANGED <<connected, receiveBuf, pt, inBuffer, crashed, pending, sock,
                   peerClosed, plan, planKind, plansLeft, epoch, ringEpoch, pktBytes,
                   pktEpochs, lastDone, track, obs, enc>>

HandPacketNext ==
    PrepareCall

SpecHandPacket ==
    FramerInit /\ [][HandPacketNext]_vars

\* the k-th short int (from 0) of the payload of packet b
ShortAt(b, k) ==
    SignedBigEndian(b[8 + 2 * k], b[9 + 2 * k])

\* the 52 short ints documented for one hand
DocumentedShorts(hand) ==
    LET d == translateLandmarksToDigitPositions(LandmarkFields(hand)) IN
    <<IF hand.scoreAbove THEN 1 ELSE 0,
      IF hand.scoreAbove THEN hand.rect_w_a ELSE 0,
      d.thumb_state, d.index_state, d.middle_state, d.ring_state, d.little_state,
      IF hand.landmarks[6][1] < hand.landmarks[21][1] THEN 0 ELSE 1,
      hand.landmarks[1][1], MaxY(hand.landmarks)>>
      \o [j \in 1..42 |-> hand.landmarks[(j + 1) \div 2][IF j % 2 = 1 THEN 1 ELSE 2]]

\* C32: for a list of n hands that fits the send buffer the HAND_GESTURE_DATA
\* packet has a payload of exactly 104 * n bytes: for each hand, in order, 52
\* short ints (valid flag, width, five digit states, which hand, label anchor
\* x and y, 21 landmark x and y)
C32_HandPayload ==
    (call.op = "prepareHandDataForHost"
        /\ 7 + 104 * Len(call.hands) + 1 <= OUT_BUFFER_SIZE) =>
        /\ call.raised = "none"
        /\ Len(call.sent) = 1
        /\ Len(call.sent[1]) = 7 + 104 * Len(call.hands) + 1
        /\ LengthField(call.sent[1]) = 104 * Len(call.hands)
        /\ call.sent[1][5] = HAND_GESTURE_DATA
        /\ \A h \in 1..Len(call.hands) : \A k \in 0..51 :
                ShortAt(call.sent[1], 52 * (h - 1) + k)
                    = DocumentedShorts(call.hands[h])[k + 1]

\* nine hands, the most that fit, hands with a score below the threshold, a
\* sideways hand and a negative coordinate among them
C32_Witness ==
    /\ call.op = "prepareHandDataForHost"
    /\ Len(call.hands) = 9
    /\ Len(call.sent) = 1
    /\ Len(call.sent[1]) = 944
    /\ \E h \in 1..9 : ~call.hands[h].scoreAbove
    /\ \E h \in 1..9 : call.hands[h].handAngle = 90
    /\ \E k \in 0..467 : ShortAt(call.sent[1], k) < 0

-----------------------------------------------------------------------------
(* Claims about the dispatch of packets, checked under Spec *)

\* the packets of type t among the packets sent during the last call
SentOfType(t) ==
    {i \in 1..Len(obs.sent) : obs.sent[i][5] = t}

-----------------------------------------------------------------------------
(* A header that declares any payload length, on one connection: the peer   *)
(* sends the header, the payload (zeros), the checksum byte and keeps       *)
(* sending zeros for as long as the framer waits for a payload.             *)

DeclaredLengths == {0, 2, 49, 50, IN_BUFFER_SIZE + 1, 65535}

StuckHistory ==
    IF call.op = "declared" THEN call
    ELSE [op |-> "declared", n |-> 0, length |-> 0, sent |-> 0, copied |-> 0]

\* the k-th byte (from 1) the peer sends for a header that declares length
StreamByte(length, k) ==
    IF k <= 7
    THEN <<170, 85, ThisDeviceIdentifier, RemoteDeviceIdentifier, LOG_MESSAGE,
           length \div 256, length % 256>>[k]
    ELSE IF k = 7 + length + 1
    THEN (256 - ((170 + 85 + ThisDeviceIdentifier + RemoteDeviceIdentifier
                    + LOG_MESSAGE + (length \div 256) + (length % 256)) % 256)) % 256
    ELSE 0

stuckFrame ==
    <<connected, outBuffer, crashed, pending, sock, peerClosed, plan, planKind,
      plansLeft, epoch, ringEpoch, pktBytes, pktEpochs, lastDone, track, enc>>

\* the peer decides on the length its header declares
StuckChoose ==
    /\ call.op = "none"
    /\ \E length \in DeclaredLengths :
        call' = [StuckHistory EXCEPT !.length = length]
    /\ UNCHANGED <<receiveBuf, pt, inBuffer, obs, stuckFrame>>

\* handleReceive: the next byte of the peer is appended
StuckFeed ==
    /\ call.op = "declared"
    /\ call.sent < 7 + call.length + 1 \/ pt.headerValid
    /\ receiveBuf' = CB_append(receiveBuf, StreamByte(call.length, call.sent + 1))
    /\ call' = [call EXCEPT
                    !.sent = IF @ < 7 + call.length + 1 THEN @ + 1 ELSE @]
    /\ UNCHANGED <<pt, inBuffer, obs, stuckFrame>>

\* the number of bytes one call of checkForPacketReady has byteIn.read put
\* into inBuffer
CopiedBy(p, rb) ==
    LET h == IF p.headerValid THEN [p |-> p, rb |-> rb]
             ELSE checkForPacketHeaderAvailable(p, rb)
    IN
    IF p.byteInSet /\ h.p.headerValid
          /\ CB_available(h.rb) >= h.p.numDataBytesPlusChecksumByte
    THEN h.p.numDataBytesPlusChecksumByte
    ELSE 0

\* one call of checkForPacketReady
StuckPoll ==
    /\ call.op = "declared"
    /\ \E r \in {checkForPacketReady(pt, receiveBuf, inBuffer, ThisDeviceIdentifier)} :
        /\ pt' = r.p
        /\ receiveBuf' = r.rb
        /\ inBuffer' = r.buf
        /\ call' = [call EXCEPT !.copied = CopiedBy(pt, receiveBuf)]
    /\ UNCHANGED <<obs, stuckFrame>>

StuckNext ==
    \/ StuckChoose
    \/ StuckFeed
    \/ StuckPoll

\* the peer keeps sending and the main loop keeps polling
SpecStuck ==
    FramerInit /\ [][StuckNext]_vars /\ WF_vars(StuckFeed) /\ WF_vars(StuckPoll)

\* C34: for every payload length a header can declare, once the header is
\* accepted the framer stops waiting for the payload after finitely many polls,
\* provided the peer keeps sending on the same connection
C34_FramerNotStuck ==
    (call.op = "declared" /\ pt.headerValid) ~> (call.op = "declared" /\ ~pt.headerValid)

-----------------------------------------------------------------------------
\* C35: in every packet sent by sendString, for a string of any length, a
\* truncated one included, the 16-bit length field of the header is the number
\* of bytes placed between the header and the checksum (the text bytes sent
\* and the terminator), so that length + 1 bytes follow the header.
C35_TextLengthField ==
    (call.op = "sendString" /\ call.raised = "none") =>
        /\ LengthField(call.handed) = Len(PayloadHanded)
        /\ Len(call.handed) = 7 + LengthField(call.handed) + 1

-----------------------------------------------------------------------------
\* C36: whatever the socket does during a call of doRunTimeTasks (a zero-byte
\* read, a zero-byte send, a failure of shutdown or close during the
\* disconnect that follows), the call returns an integer and no SocketBroken
\* reaches its caller.
C36_SocketBrokenStaysInside ==
    crashed => (~obs.disconnected /\ obs.raised # "SocketBroken")

-----------------------------------------------------------------------------
(* SpecWire: one int goes through one pass of the inner loop of             *)
(* sendSignedShortIntsFromListOfTuples and the two bytes stored are decoded *)
(* as parseDuplexIntegerFromPacket decodes the first two bytes of a value.  *)

\* ints that do not fit a signed short
WideInts == {0 - 70000, 0 - 65536, 0 - 32769, 32768, 65535, 65536, 70000, 98304}

WireInts == ((0 - MAX_SHORT_INT - 1)..MAX_SHORT_INT) \cup WideInts

\* outBuffer[x] = (anInt >> 8) & 0xff; outBuffer[x + 1] = anInt & 0xff, and
\* the receiver's ((valueMSB << 8) & 0xff00) + (valueLSB & 0xff), sign-extended
WireCall ==
    /\ call.op = "none"
    /\ \E v \in WireInts :
       \E r \in {EncodeInt([buf |-> prepareHeader(outBuffer, ThisDeviceIdentifier,
                                                  RemoteDeviceIdentifier,
                                                  HAND_GESTURE_DATA, 1),
                            x |-> 7, n |-> 0, raised |-> "none", stop |-> FALSE], v)} :
        call' = [op |-> "wire", n |-> r.n, v |-> v, raised |-> r.raised,
                 msb |-> At(r.buf, 7), lsb |-> At(r.buf, 8),
                 value |-> DuplexHalf(At(r.buf, 7), At(r.buf, 8))]
    /\ UNCHANGED <<connected, receiveBuf, pt, inBuffer, outBuffer, crashed, pending,
                   sock, peerClosed, plan, planKind, plansLeft, epoch, ringEpoch,
                   pktBytes, pktEpochs, lastDone, track, obs, enc>>

WireNext ==
    WireCall

SpecWire == FramerInit /\ [][WireNext]_vars

\* the low 16 bits of v read as a two's complement number
SignedLow16(v) ==
    IF v % 65536 < 32768 THEN v % 65536 ELSE (v % 65536) - 65536

\* C37: for every int v in -32768..32767 the two bytes emitted for v, high
\* byte first, recombined big-endian and sign-extended over 16 bits give back
\* v; for v outside that range they give the signed value of v's low 16 bits.
C37_ShortRoundTrip ==
    call.op = "wire" =>
        /\ call.raised = "none" /\ call.n = 2
        /\ call.msb \in 0..255 /\ call.lsb \in 0..255
        /\ call.msb * 256 + call.lsb = call.v % 65536
        /\ (call.v >= 0 - 32768 /\ call.v <= 32767) => call.value = call.v
        /\ call.value = SignedLow16(call.v)

\* a negative short came back from the bytes FF 85
C37_Witness ==
    /\ call.op = "wire"
    /\ call.v = 0 - 123
    /\ call.msb = 255 /\ call.lsb = 133
    /\ call.value = 0 - 123

-----------------------------------------------------------------------------
\* C38: for every header a peer can send (payload length 0..65535), with the
\* ring buffer of RECEIVE_BUFFER_SIZE bytes EthernetLink uses, no call of
\* checkForPacketReady copies more bytes into inBuffer than the
\* IN_BUFFER_SIZE + 1 entries inBuffer holds.
C38_InBufferBound ==
    call.op = "declared" =>
        /\ call.copied <= IN_BUFFER_SIZE + 1
        /\ call.copied <= RECEIVE_BUFFER_SIZE
        /\ Len(inBuffer) <= IN_BUFFER_SIZE + 1

\* a poll copied a payload and checksum that filled the ring buffer
C38_Witness ==
    /\ call.op = "declared"
    /\ call.length = RECEIVE_BUFFER_SIZE - 1
    /\ call.copied = RECEIVE_BUFFER_SIZE
    /\ ~pt.headerValid

-----------------------------------------------------------------------------
\* the states translateLandmarksToDigitPositions left in the four fingers
FingerStates ==
    {call.digits.index_state, call.digits.middle_state, call.digits.ring_state,
     call.digits.little_state}

=============================================================================
